---- MODULE Spec2Model ----
(***************************************************************************)
(* A model of the Tendermint-style proof-of-stake engine of tendermint-sg: *)
(* the staking ledger carried by every StakeBlock, the accumulated-power   *)
(* proposer selection, the vote boxes and their tally, and the validator's *)
(* round state machine.                                                    *)
(*                                                                         *)
(* Eight specifications share the module:                                  *)
(*   SpecLedger    one chain of StakeBlocks mutated by transactions        *)
(*   SpecProposer  repeated determineProposer on a fixed stake table       *)
(*   SpecTally     one precommit box filled from signed votes and tallied  *)
(*   Spec          validators that follow the protocol, over a network     *)
(*                 that delays and loses messages                          *)
(*   SpecCarry     one validator whose peers have run ahead of it          *)
(*   SpecGenesis   makeGenesis on a configuration                          *)
(*   SpecVote      Vote.isValid on one vote                                *)
(*   SpecEquivocate  one validator and a proposer that signs two blocks    *)
(* Each specification moves only its own variables and leaves the others   *)
(* at their idle value.                                                    *)
(***************************************************************************)
EXTENDS Integers, Sequences, FiniteSets, TLC

VARIABLES
  lcur,      \* SpecLedger, SpecTally: the block being built; SpecGenesis: the result
  lparent,   \* SpecLedger: the block lcur was constructed from
  lheap,     \* SpecLedger: the queue arrays the unstakingEvents maps point to
  llog,      \* SpecLedger: history; SpecGenesis, SpecVote: the input and the outcome
  psel,      \* SpecProposer: the selector's state and its history
  val,       \* Spec, SpecCarry, SpecEquivocate: validators' fields; SpecTally: one box
  net,       \* Spec, SpecCarry, SpecTally: the messages and transactions broadcast
  hist       \* Spec, SpecCarry: the blocks made so far

vars == <<lcur, lparent, lheap, llog, psel, val, net, hist>>

-----------------------------------------------------------------------------
(* JavaScript values.  A Map is an ordered map: a sequence of [k, v] in     *)
(* insertion order.  NaN is what arithmetic on undefined gives; it poisons  *)
(* sums and makes every comparison false.                                   *)

NaN == -999999

NoAddr == "undefined"

JsAdd(x, y) == IF x = NaN \/ y = NaN THEN NaN ELSE x + y

JsSub(x, y) == IF x = NaN \/ y = NaN THEN NaN ELSE x - y

JsGt(x, y) == x # NaN /\ y # NaN /\ x > y

\* x || 0 for a number x: NaN and 0 are falsy.
OrZero(x) == IF x = NaN THEN 0 ELSE x

MHas(m, key) == \E i \in 1..Len(m) : m[i].k = key

MIdx(m, key) == CHOOSE i \in 1..Len(m) : m[i].k = key

MGet(m, key) == m[MIdx(m, key)].v

MSet(m, key, value) ==
  IF MHas(m, key) THEN [m EXCEPT ![MIdx(m, key)].v = value]
  ELSE Append(m, [k |-> key, v |-> value])

MDel(m, key) == SelectSeq(m, LAMBDA e : e.k # key)

MKeySet(m) == {m[i].k : i \in 1..Len(m)}

RECURSIVE MSum(_)
MSum(m) == IF m = <<>> THEN 0 ELSE JsAdd(m[1].v, MSum(Tail(m)))

-----------------------------------------------------------------------------
(* StakeBlock: the staking ledger of one block.                             *)

UNSTAKE_DELAY == 35

\* StakeBlock.amountGoldStaked
amountGoldStaked(b, addr) ==
  IF MHas(b.stakeBalances, addr) THEN OrZero(MGet(b.stakeBalances, addr)) ELSE 0

\* StakeBlock.getTotalStake
getTotalStake(b) == MSum(b.stakeBalances)

\* Block.balanceOf of the host platform: balances.get(addr) || 0
balanceOf(b, addr) == IF addr \in DOMAIN b.balances THEN OrZero(b.balances[addr]) ELSE 0

\* The forEach of handleUnstakingEvents over one queue.
RECURSIVE drainQueue(_, _)
drainQueue(stake, q) ==
  IF q = <<>> THEN stake
  ELSE LET e == q[1]
           totalStaked == IF MHas(stake, e.clientID) THEN MGet(stake, e.clientID) ELSE NaN
       IN  drainQueue(MSet(stake, e.clientID, JsSub(totalStaked, e.amount)), Tail(q))

\* handleUnstakingEvents without the delete of the handled queue.
handleUnstakingEventsKept(b, heap) ==
  IF b.chainLength \in DOMAIN b.unstakingEvents
  THEN [b EXCEPT
          !.stakeBalances = drainQueue(b.stakeBalances, heap[b.unstakingEvents[b.chainLength]])]
  ELSE b

\* StakeBlock.handleUnstakingEvents
handleUnstakingEvents(b, heap) ==
  IF b.chainLength \in DOMAIN b.unstakingEvents
  THEN [b EXCEPT
          !.stakeBalances = drainQueue(b.stakeBalances, heap[b.unstakingEvents[b.chainLength]]),
          !.unstakingEvents = [h \in DOMAIN b.unstakingEvents \ {b.chainLength}
                                 |-> b.unstakingEvents[h]]]
  ELSE b

\* StakeBlock.constructor: the three maps are copied from prevBlock (the map
\* is new, the queue arrays it points to are shared), then unstaking is handled.
newStakeBlock(rewardAddr, prev, heap) ==
  handleUnstakingEvents(
    [chainLength |-> prev.chainLength + 1,
     rewardAddr |-> rewardAddr,
     balances |-> prev.balances,
     stakeBalances |-> prev.stakeBalances,
     unstakingEvents |-> prev.unstakingEvents,
     accumPower |-> prev.accumPower], heap)

\* stakeGold that stores the amount instead of adding it to the current stake.
stakeGoldReplacing(b, addr, amountStaked) ==
  [b EXCEPT !.stakeBalances = MSet(@, addr, amountStaked)]

\* StakeBlock.stakeGold
stakeGold(b, addr, amountStaked) ==
  [b EXCEPT !.stakeBalances = MSet(@, addr, amountGoldStaked(b, addr) + amountStaked)]

\* A fresh array reference.
newRef(heap) == IF DOMAIN heap = {} THEN 1
                ELSE 1 + CHOOSE r \in DOMAIN heap : \A s \in DOMAIN heap : s <= r

\* unstakeGold that schedules every release for one fixed height, whatever the
\* height of the block.
unstakeGoldFixedRound(b, heap, addr, amountUnstaked) ==
  LET unstakingRound == UNSTAKE_DELAY + 1
      ev == [clientID |-> addr, amount |-> amountUnstaked]
  IN  IF unstakingRound \in DOMAIN b.unstakingEvents
      THEN [blk |-> b,
            heap |-> [heap EXCEPT ![b.unstakingEvents[unstakingRound]] = Append(@, ev)]]
      ELSE LET r == newRef(heap)
           IN  [blk |-> [b EXCEPT !.unstakingEvents =
                           [h \in DOMAIN @ \cup {unstakingRound} |->
                              IF h = unstakingRound THEN r ELSE @[h]]],
                heap |-> [x \in DOMAIN heap \cup {r} |->
                              IF x = r THEN <<ev>> ELSE heap[x]]]

\* StakeBlock.unstakeGold: returns the block and the heap.
unstakeGold(b, heap, addr, amountUnstaked) ==
  LET unstakingRound == b.chainLength + UNSTAKE_DELAY
      ev == [clientID |-> addr, amount |-> amountUnstaked]
  IN  IF unstakingRound \in DOMAIN b.unstakingEvents
      THEN [blk |-> b,
            heap |-> [heap EXCEPT ![b.unstakingEvents[unstakingRound]] = Append(@, ev)]]
      ELSE LET r == newRef(heap)
           IN  [blk |-> [b EXCEPT !.unstakingEvents =
                           [h \in DOMAIN @ \cup {unstakingRound} |->
                              IF h = unstakingRound THEN r ELSE @[h]]],
                heap |-> [x \in DOMAIN heap \cup {r} |->
                              IF x = r THEN <<ev>> ELSE heap[x]]]

\* StakeBlock.updateAccumPower
RECURSIVE addBonded(_, _)
addBonded(power, stake) ==
  IF stake = <<>> THEN power
  ELSE LET addr == stake[1].k
           p == IF MHas(power, addr) THEN OrZero(MGet(power, addr)) ELSE 0
       IN  addBonded(MSet(power, addr, JsAdd(p, stake[1].v)), Tail(stake))

updatePower(power, stake, proposerAddr) ==
  LET raised == addBonded(power, stake)
      totalBonded == MSum(stake)
      currentPower == IF MHas(raised, proposerAddr) THEN MGet(raised, proposerAddr) ELSE NaN
  IN  MSet(raised, proposerAddr, JsSub(currentPower, totalBonded))

updateAccumPower(b, proposerAddr) ==
  [b EXCEPT !.accumPower = updatePower(b.accumPower, b.stakeBalances, proposerAddr)]

-----------------------------------------------------------------------------
(* Signed messages.  A vote is {from, height, round, type, blockID} with a  *)
(* signature; signer is the key that made the signature.  A proposal has    *)
(* type "PROPOSAL" and stands for a message with a block field.  The id is  *)
(* the hash of the fields the class lists, so it is modelled as the tuple   *)
(* of those fields.                                                         *)

PROPOSAL == "PROPOSAL"

PREVOTE == "PREVOTE"

PRECOMMIT == "PRECOMMIT"

COMMIT == "COMMIT"

NIL == 0

\* Block.id: the hash of a block, one number per (height, round, variant).
BlockId(height, round, n) == 100 * height + 10 * round + n + 1

Msg(from, height, round, type, blockID, signer) ==
  [from |-> from, height |-> height, round |-> round, type |-> type,
   blockID |-> blockID, signer |-> signer]

STAKE == "STAKE"

UNSTAKE == "UNSTAKE"

EVIDENCE == "EVIDENCE"

NoMsg == Msg(NoAddr, 0, 0, "NONE", NIL, NoAddr)

\* Blockchain.makeTransaction: a staking transaction, or an evidence
\* transaction carrying two messages.
Tx(type, from, amount, msg1, msg2) ==
  [type |-> type, from |-> from, amount |-> amount, msg1 |-> msg1, msg2 |-> msg2]

\* msg.block !== undefined
hasBlockField(m) == m.type = PROPOSAL

\* Vote.id (and Proposal.id) of a message read as the class punishCheater
\* chose: new Vote(proposal) has no type, new Proposal(vote) has no block.
idAs(asProposal, m) ==
  <<m.from, m.height, m.round,
    IF asProposal THEN (IF hasBlockField(m) THEN "block" ELSE "noblock")
    ELSE (IF hasBlockField(m) THEN "notype" ELSE m.type),
    m.blockID>>

\* Vote.hasValidSignature: the key matches from and the signature is over
\* this id (a signature made over the other class's id does not verify).
hasValidSignatureAs(asProposal, m) ==
  m.signer = m.from /\ hasBlockField(m) = asProposal

\* Math.floor(stakeAmount * (amountStaked / totalBonded)); for the amounts
\* used here the double product rounds to the exact quotient's floor.
floorShare(stakeAmount, amountStaked, totalBonded) ==
  IF stakeAmount = NaN \/ amountStaked = NaN \/ totalBonded = NaN \/ totalBonded = 0
  THEN NaN
  ELSE IF totalBonded > 0 THEN (stakeAmount * amountStaked) \div totalBonded
       ELSE (0 - stakeAmount * amountStaked) \div (0 - totalBonded)

\* this.unstakingEvents.delete(cheaterAddr): the keys of the map are heights,
\* so deleting an address removes nothing.
deleteUnstakingByAddr(events, cheaterAddr) == events

RECURSIVE giveShares(_, _, _, _)
giveShares(balances, stake, stakeAmount, totalBonded) ==
  IF stake = <<>> THEN balances
  ELSE LET addr == stake[1].k
           b == IF addr \in DOMAIN balances THEN OrZero(balances[addr]) ELSE 0
           share == floorShare(stakeAmount, stake[1].v, totalBonded)
       IN  giveShares([x \in DOMAIN balances \cup {addr} |->
                          IF x = addr THEN JsAdd(b, share) ELSE balances[x]],
                      Tail(stake), stakeAmount, totalBonded)

\* The test of punishCheater, lines 134-136.
isEvidence(msg1, msg2) ==
  LET asProposal == hasBlockField(msg1)
  IN  /\ idAs(asProposal, msg1) # idAs(asProposal, msg2)
      /\ msg1.from = msg2.from
      /\ msg1.height = msg2.height
      /\ msg1.round = msg2.round
      /\ hasValidSignatureAs(asProposal, msg1)
      /\ hasValidSignatureAs(asProposal, msg2)

\* punishCheater that seizes one coin from a cheater that holds no stake.
punishCheaterFlatFine(b, msg1, msg2) ==
  IF isEvidence(msg1, msg2)
  THEN LET cheaterAddr == msg1.from
           balance == balanceOf(b, cheaterAddr)
           stakeAmount == IF MHas(b.stakeBalances, cheaterAddr)
                          THEN amountGoldStaked(b, cheaterAddr) ELSE 1
           ejected == [b EXCEPT
                         !.accumPower = MDel(@, cheaterAddr),
                         !.stakeBalances = MDel(@, cheaterAddr),
                         !.unstakingEvents = deleteUnstakingByAddr(@, cheaterAddr),
                         !.balances = [x \in DOMAIN @ \cup {cheaterAddr} |->
                                         IF x = cheaterAddr THEN JsSub(balance, stakeAmount)
                                         ELSE @[x]]]
           totalBonded == getTotalStake(ejected)
       IN  [ejected EXCEPT !.balances =
              giveShares(@, ejected.stakeBalances, stakeAmount, totalBonded)]
  ELSE b

\* StakeBlock.punishCheater
punishCheater(b, msg1, msg2) ==
  IF isEvidence(msg1, msg2)
  THEN LET cheaterAddr == msg1.from
           balance == balanceOf(b, cheaterAddr)
           stakeAmount == amountGoldStaked(b, cheaterAddr)
           ejected == [b EXCEPT
                         !.accumPower = MDel(@, cheaterAddr),
                         !.stakeBalances = MDel(@, cheaterAddr),
                         !.unstakingEvents = deleteUnstakingByAddr(@, cheaterAddr),
                         !.balances = [x \in DOMAIN @ \cup {cheaterAddr} |->
                                         IF x = cheaterAddr THEN JsSub(balance, stakeAmount)
                                         ELSE @[x]]]
           totalBonded == getTotalStake(ejected)
       IN  [ejected EXCEPT !.balances =
              giveShares(@, ejected.stakeBalances, stakeAmount, totalBonded)]
  ELSE b

-----------------------------------------------------------------------------
(* SpecLedger: one chain of StakeBlocks.  A block is constructed from its   *)
(* parent, transactions are applied to it, and the proposer's               *)
(* updateAccumPower closes it (proposeBlock); the closed block is the       *)
(* parent of the next one.                                                  *)

MaxAmount == 2

MaxTxs == 2

MaxTxHeight == 2

MaxFreeHeight == 1

MaxLedgerHeight == 37

LedgerAddr == {"a", "b", "c", "d"}

Amounts == 1..MaxAmount

\* StakeBlockchain.makeGenesis with startingStake {a: 2, b: 1, c: 1}; d holds
\* gold but no stake.
LedgerGenesis ==
  LET startingStake == <<[k |-> "a", v |-> 2], [k |-> "b", v |-> 1], [k |-> "c", v |-> 1]>>
  IN  [chainLength |-> 0,
       rewardAddr |-> NoAddr,
       balances |-> [x \in LedgerAddr |-> 10],
       stakeBalances |-> startingStake,
       unstakingEvents |-> <<>>,
       accumPower |-> startingStake]

\* Blocks X and Y of height 1 that evidence messages name.
EvX == BlockId(1, 1, 0)

EvY == BlockId(1, 1, 1)

\* The pairs of messages an Evidence transaction may carry: two prevotes of b
\* for different blocks in one round; the prevote and the precommit of c for
\* one block in one round; a prevote of c and a vote in c's name signed with
\* b's key; two prevotes of b in different rounds; one message twice; two
\* proposals of a for different blocks in one round.
EvidencePairs ==
  { <<Msg("b", 1, 1, PREVOTE, EvX, "b"), Msg("b", 1, 1, PREVOTE, EvY, "b")>>,
    <<Msg("c", 1, 1, PREVOTE, EvX, "c"), Msg("c", 1, 1, PRECOMMIT, EvX, "c")>>,
    <<Msg("c", 1, 1, PREVOTE, EvX, "c"), Msg("c", 1, 1, PREVOTE, EvY, "b")>>,
    <<Msg("b", 1, 1, PREVOTE, EvX, "b"), Msg("b", 1, 2, PREVOTE, EvY, "b")>>,
    <<Msg("b", 1, 1, PREVOTE, EvX, "b"), Msg("b", 1, 1, PREVOTE, EvX, "b")>>,
    <<Msg("a", 1, 1, PROPOSAL, EvX, "a"), Msg("a", 1, 1, PROPOSAL, EvY, "a")>> }

NoEvidence == <<>>

LedgerIdle == <<>>

LedgerInit ==
  /\ lparent = LedgerGenesis
  /\ lcur = LedgerGenesis
  /\ lheap = <<>>
  /\ llog = [closed |-> TRUE, nTx |-> 0, unstakes |-> <<>>, slashed |-> {},
             evidence |-> NoEvidence, ejected |-> {}, txs |-> <<>>, replayed |-> TRUE]
  /\ psel = LedgerIdle /\ val = LedgerIdle /\ net = LedgerIdle /\ hist = LedgerIdle

\* The addresses that hold an entry in the block's validator maps.
validatorsOf(b) == MKeySet(b.accumPower) \cup MKeySet(b.stakeBalances)

\* Validator.determineProposer over the accumPower of the head block: the
\* first address, in insertion order, of the strictly largest positive power.
RECURSIVE scanProposer(_, _, _)
scanProposer(power, proposer, proposerPower) ==
  IF power = <<>> THEN proposer
  ELSE IF JsGt(power[1].v, proposerPower)
       THEN scanProposer(Tail(power), power[1].k, power[1].v)
       ELSE scanProposer(Tail(power), proposer, proposerPower)

\* Block.addTransaction accepted the transaction (fee 0) and dispatches on
\* tx.data.type.  Transactions arrive in the first blocks of the chain;
\* evidence also arrives once the first unstakings have matured.
LApplyStake(addr, amount) ==
  /\ ~llog.closed /\ lcur.chainLength <= MaxTxHeight /\ llog.nTx < MaxTxs
  /\ lcur' = stakeGold(lcur, addr, amount)
  /\ llog' = [llog EXCEPT !.nTx = @ + 1, !.evidence = NoEvidence, !.ejected = {},
                          !.txs = Append(@, Tx(STAKE, addr, amount, NoMsg, NoMsg))]
  /\ UNCHANGED <<lparent, lheap>>

LApplyUnstake(addr, amount) ==
  /\ ~llog.closed /\ lcur.chainLength <= MaxTxHeight /\ llog.nTx < MaxTxs
  /\ LET r == unstakeGold(lcur, lheap, addr, amount)
     IN  /\ lcur' = r.blk
         /\ lheap' = r.heap
  /\ llog' = [llog EXCEPT !.nTx = @ + 1, !.evidence = NoEvidence, !.ejected = {},
                          !.txs = Append(@, Tx(UNSTAKE, addr, amount, NoMsg, NoMsg)),
                          !.unstakes = Append(@, [clientID |-> addr, amount |-> amount,
                                                  height |-> lcur.chainLength,
                                                  bonded |-> MHas(lcur.stakeBalances, addr)])]
  /\ UNCHANGED lparent

LApplyEvidence(msg1, msg2) ==
  /\ ~llog.closed /\ llog.nTx < MaxTxs
  /\ lcur.chainLength <= MaxTxHeight \/ lcur.chainLength > UNSTAKE_DELAY
  /\ lcur' = punishCheater(lcur, msg1, msg2)
  /\ llog' = [llog EXCEPT !.nTx = @ + 1,
                          !.txs = Append(@, Tx(EVIDENCE, msg1.from, 0, msg1, msg2)),
                          !.evidence = <<msg1, msg2>>,
                          !.ejected = MKeySet(lcur.stakeBalances) \ MKeySet(lcur'.stakeBalances),
                          !.slashed = @ \cup (MKeySet(lcur.stakeBalances)
                                                \ MKeySet(lcur'.stakeBalances))]
  /\ UNCHANGED <<lparent, lheap>>

\* The tail of Validator.proposeBlock: currentBlock.updateAccumPower(address).
LClose ==
  /\ ~llog.closed
  /\ lcur' = updateAccumPower(lcur, lcur.rewardAddr)
  /\ llog' = [llog EXCEPT !.closed = TRUE, !.evidence = NoEvidence, !.ejected = {}]
  /\ UNCHANGED <<lparent, lheap>>

\* Blockchain.makeBlock(proposer, head).  Up to MaxFreeHeight any validator
\* may be the proposer (earlier rounds failed); above it the proposer is the
\* one determineProposer selects in the first round.
LMakeBlock(proposer) ==
  /\ llog.closed /\ lcur.chainLength < MaxLedgerHeight
  /\ proposer \in validatorsOf(lcur)
  /\ lcur.chainLength >= MaxFreeHeight =>
       proposer = scanProposer(lcur.accumPower, lcur.rewardAddr, 0)
  /\ lparent' = lcur
  /\ lcur' = newStakeBlock(proposer, lcur, lheap)
  /\ llog' = [llog EXCEPT !.closed = FALSE, !.evidence = NoEvidence, !.ejected = {},
                          !.txs = <<>>, !.replayed = FALSE]
  /\ UNCHANGED lheap

\* Block.rerun: the block's transactions are added again, in order.
RECURSIVE replay(_, _, _)
replay(b, heap, txs) ==
  IF txs = <<>> THEN [blk |-> b, heap |-> heap]
  ELSE LET tx == txs[1]
           r == CASE tx.type = STAKE ->
                       [blk |-> stakeGold(b, tx.from, tx.amount), heap |-> heap]
                  [] tx.type = UNSTAKE -> unstakeGold(b, heap, tx.from, tx.amount)
                  [] OTHER -> [blk |-> punishCheater(b, tx.msg1, tx.msg2), heap |-> heap]
       IN  replay(r.blk, r.heap, Tail(txs))

\* StakeBlock.rerun(prevBlock) in the process that holds prevBlock: the maps
\* are copied from prevBlock, then updateAccumPower, handleUnstakingEvents
\* and the replay of the transactions.
rerunOn(block, txs, prevBlock, heap) ==
  LET copied == [block EXCEPT !.balances = prevBlock.balances,
                              !.stakeBalances = prevBlock.stakeBalances,
                              !.unstakingEvents = prevBlock.unstakingEvents,
                              !.accumPower = prevBlock.accumPower]
  IN  replay(handleUnstakingEvents(updateAccumPower(copied, block.rewardAddr), heap),
             heap, txs)

\* Validator.collectProposal: a proposed block is replayed on its parent and
\* the replayed block is the one stored (and later built on).
LRerun ==
  /\ llog.closed /\ ~llog.replayed
  /\ LET r == rerunOn(lcur, llog.txs, lparent, lheap)
     IN  /\ lcur' = r.blk
         /\ lheap' = r.heap
  /\ llog' = [llog EXCEPT !.replayed = TRUE, !.evidence = NoEvidence, !.ejected = {}]
  /\ UNCHANGED lparent

EngineIdle == <<psel, val, net, hist>>

LedgerNext ==
  /\ \/ \E addr \in LedgerAddr, amount \in Amounts : LApplyStake(addr, amount)
     \/ \E addr \in LedgerAddr, amount \in Amounts : LApplyUnstake(addr, amount)
     \/ \E e \in EvidencePairs : LApplyEvidence(e[1], e[2])
     \/ LClose
     \/ LRerun
     \/ \E proposer \in LedgerAddr : LMakeBlock(proposer)
  /\ UNCHANGED EngineIdle

SpecLedger == LedgerInit /\ [][LedgerNext]_vars

-----------------------------------------------------------------------------
(* Claims about the ledger.                                                 *)

\* Two validly signed messages of one author for the same height, round and
\* phase with different ids.
isEquivocation(msg1, msg2) ==
  /\ msg1.from = msg2.from
  /\ msg1.signer = msg1.from /\ msg2.signer = msg2.from
  /\ msg1.height = msg2.height /\ msg1.round = msg2.round
  /\ msg1.type = msg2.type
  /\ msg1.blockID # msg2.blockID

\* C6: an Evidence transaction ejects a validator c from the bonded set only
\* if its two messages are validly signed messages from c for the same
\* (height, round, phase) with different ids.
C6_OnlyEquivocationSlashed ==
  llog.ejected # {} =>
    /\ llog.ejected = {llog.evidence[1].from}
    /\ isEquivocation(llog.evidence[1], llog.evidence[2])

\* C7: in every block reached from genesis by construction, transactions and
\* updateAccumPower, with no slashing, the sum of accumPower over all
\* addresses equals the sum in the genesis block.
C7_PowerConserved ==
  llog.slashed = {} => MSum(lcur.accumPower) = MSum(LedgerGenesis.accumPower)

\* The amount address a has scheduled, in the unstakes applied so far, for
\* release at the given height.
RECURSIVE MaturingAt(_, _, _)
MaturingAt(log, addr, height) ==
  IF log = <<>> THEN 0
  ELSE (IF log[1].clientID = addr /\ log[1].height + UNSTAKE_DELAY = height
        THEN log[1].amount ELSE 0) + MaturingAt(Tail(log), addr, height)

\* C10: applying an Unstake leaves stakeBalances as it is; constructing the
\* block of height H changes stakeBalances[a] only by subtracting exactly the
\* amounts a's Unstakes of height H - UNSTAKE_DELAY scheduled, and leaves no
\* unstakingEvents entry for H.
C10_UnstakeDelay ==
  [][ /\ llog'.unstakes # llog.unstakes => lcur'.stakeBalances = lcur.stakeBalances
      /\ lcur'.chainLength # lcur.chainLength =>
           /\ lcur'.chainLength \notin DOMAIN lcur'.unstakingEvents
           /\ \A addr \in LedgerAddr :
                LET x == MaturingAt(llog.unstakes, addr, lcur'.chainLength)
                IN  IF x = 0
                    THEN /\ MHas(lcur'.stakeBalances, addr) = MHas(lcur.stakeBalances, addr)
                         /\ MHas(lcur.stakeBalances, addr) =>
                              MGet(lcur'.stakeBalances, addr) = MGet(lcur.stakeBalances, addr)
                    ELSE /\ MHas(lcur.stakeBalances, addr)
                         /\ MHas(lcur'.stakeBalances, addr)
                         /\ MGet(lcur.stakeBalances, addr) # NaN
                         /\ MGet(lcur'.stakeBalances, addr) = MGet(lcur.stakeBalances, addr) - x
    ]_vars

\* C11: in every block reached from genesis by Stake, Unstake and Evidence
\* transactions and height advances, every entry of stakeBalances is a
\* non-negative integer.
C11_NonNegativeStake ==
  \A i \in 1..Len(lcur.stakeBalances) :
    lcur.stakeBalances[i].v # NaN /\ lcur.stakeBalances[i].v >= 0

\* C12: in every block reached from genesis, constructed from its parent or
\* replayed by rerun and then changed by transactions, every key of
\* unstakingEvents is above the block's height.
C12_UnstakingAhead ==
  \A h \in DOMAIN lcur.unstakingEvents : h > lcur.chainLength

\* A replayed block with an unstaking queued.
C12_Witness ==
  /\ llog.replayed /\ lcur.chainLength > 0
  /\ DOMAIN lcur.unstakingEvents # {}

\* The sum of a balances map.
RECURSIVE sumBalances(_, _)
sumBalances(balances, addrs) ==
  IF addrs = {} THEN 0
  ELSE LET addr == CHOOSE x \in addrs : TRUE
       IN  JsAdd(balances[addr], sumBalances(balances, addrs \ {addr}))

\* What the address received in the step.
received(addr) == JsSub(lcur'.balances[addr], lcur.balances[addr])

\* C13: when cheater c with bonded stake S is slashed, each remaining bonded
\* validator i receives exactly floor(S * stake_i / totalBondedWithoutC), the
\* remaining validators receive at most S in total, the cheater's balance
\* decreases by exactly S, and the total gold of the block does not increase.
C13_SlashingRedistribution ==
  [][(llog'.evidence # NoEvidence /\ isEvidence(llog'.evidence[1], llog'.evidence[2]))
     => LET c == llog'.evidence[1].from
            S == amountGoldStaked(lcur, c)
            rest == MDel(lcur.stakeBalances, c)
            total == MSum(rest)
        IN  /\ \A i \in 1..Len(rest) :
                 LET share == received(rest[i].k)
                 IN  /\ share # NaN /\ rest[i].v # NaN /\ total # NaN /\ total > 0
                     /\ share * total <= S * rest[i].v
                     /\ S * rest[i].v < (share + 1) * total
            /\ sumBalances([x \in MKeySet(rest) |-> received(x)], MKeySet(rest)) # NaN
            /\ sumBalances([x \in MKeySet(rest) |-> received(x)], MKeySet(rest)) <= S
            /\ lcur'.balances[c] = lcur.balances[c] - S
            /\ sumBalances(lcur'.balances, DOMAIN lcur'.balances) # NaN
            /\ sumBalances(lcur'.balances, DOMAIN lcur'.balances)
                 <= sumBalances(lcur.balances, DOMAIN lcur.balances)]_vars

\* The total of the amounts in one queue.
RECURSIVE queueAmount(_)
queueAmount(q) == IF q = <<>> THEN 0 ELSE q[1].amount + queueAmount(Tail(q))

\* The total of the amounts pending in unstakingEvents above the block's height.
RECURSIVE pendingOver(_, _, _)
pendingOver(b, heap, heights) ==
  IF heights = {} THEN 0
  ELSE LET h == CHOOSE x \in heights : TRUE
       IN  (IF h > b.chainLength THEN queueAmount(heap[b.unstakingEvents[h]]) ELSE 0)
             + pendingOver(b, heap, heights \ {h})

pendingAmount(b, heap) == pendingOver(b, heap, DOMAIN b.unstakingEvents)

\* The residue burned by slashing so far: the gold that left the balances.
burnedResidue ==
  JsSub(sumBalances(LedgerGenesis.balances, DOMAIN LedgerGenesis.balances),
        sumBalances(lcur.balances, DOMAIN lcur.balances))

\* C14: in every block reached from genesis the sum of stakeBalances plus the
\* amounts pending in unstakingEvents above the block's height equals that
\* sum at genesis minus the residue burned by slashing.
C14_StakeConservation ==
  JsAdd(MSum(lcur.stakeBalances), pendingAmount(lcur, lheap))
    = JsSub(MSum(LedgerGenesis.stakeBalances), burnedResidue)

\* The bonded total as the code reads it, address by address.
bondedTotal(b) ==
  sumBalances([a \in LedgerAddr |-> amountGoldStaked(b, a)], LedgerAddr)

\* The amounts of a queue that its release subtracts from an entry that
\* holds a number (the release for an address without one stores NaN).
RECURSIVE releasedFrom(_, _)
releasedFrom(stake, q) ==
  IF q = <<>> THEN 0
  ELSE (IF MHas(stake, q[1].clientID) /\ MGet(stake, q[1].clientID) # NaN
        THEN q[1].amount ELSE 0) + releasedFrom(stake, Tail(q))

\* C14 as amended: the bonded total rises by x with a Stake of x, is left
\* alone by an Unstake (the amount stays in stakeBalances while it is
\* pending), falls at the construction of a block by the amounts released
\* from entries that hold a number, and falls by the whole stake of the
\* cheater, not only by the burned residue, when a validator is slashed;
\* closing and replaying a block leave it as it is.
C14_StakeAccounting ==
  [][LET tx == llog'.txs[Len(llog'.txs)]
     IN  CASE lcur'.chainLength # lcur.chainLength ->
                bondedTotal(lcur') = bondedTotal(lcur) -
                  (IF lcur'.chainLength \in DOMAIN lcur.unstakingEvents
                   THEN releasedFrom(lcur.stakeBalances,
                                     lheap[lcur.unstakingEvents[lcur'.chainLength]])
                   ELSE 0)
           [] llog'.nTx = llog.nTx -> bondedTotal(lcur') = bondedTotal(lcur)
           [] tx.type = STAKE -> bondedTotal(lcur') = bondedTotal(lcur) + tx.amount
           [] tx.type = UNSTAKE ->
                /\ bondedTotal(lcur') = bondedTotal(lcur)
                /\ pendingAmount(lcur', lheap') = pendingAmount(lcur, lheap) + tx.amount
           [] OTHER ->
                bondedTotal(lcur') = bondedTotal(lcur) -
                  (IF isEvidence(tx.msg1, tx.msg2)
                   THEN amountGoldStaked(lcur, tx.msg1.from) ELSE 0)]_vars

\* A block of a chain in which an unstaking was scheduled and released and a
\* validator was slashed.
C14_Witness ==
  /\ lcur.chainLength > UNSTAKE_DELAY
  /\ llog.unstakes # <<>> /\ DOMAIN lcur.unstakingEvents = {}
  /\ llog.slashed # {}

\* What a block holds of the validator ledger: the two maps and, for every
\* height of unstakingEvents, the contents of its queue.
ledgerOf(b, heap) ==
  [stakeBalances |-> b.stakeBalances,
   accumPower |-> b.accumPower,
   unstakingEvents |-> [h \in DOMAIN b.unstakingEvents |-> heap[b.unstakingEvents[h]]]]

\* C19 (copy-on-write ledger): once a child block has been constructed from a
\* parent, or rerun against it, no stake, unstake, slash, updateAccumPower or
\* replay on the child changes the parent's stakeBalances, accumPower or
\* unstakingEvents, the contents of its queues included; and constructing the
\* next child leaves the block it is constructed from as it was.
C19_CopyOnWrite ==
  [][IF lcur'.chainLength = lcur.chainLength
     THEN ledgerOf(lparent', lheap') = ledgerOf(lparent, lheap)
     ELSE ledgerOf(lparent', lheap') = ledgerOf(lcur, lheap)]_vars

\* A replayed child that holds a queue of its own and differs from its parent
\* in all three maps, the parent holding a queue as well.
C19_Witness ==
  /\ lcur.chainLength = lparent.chainLength + 1
  /\ llog.replayed /\ llog.txs # <<>>
  /\ lcur.stakeBalances # lparent.stakeBalances
  /\ lcur.accumPower # lparent.accumPower
  /\ DOMAIN lparent.unstakingEvents # {}
  /\ DOMAIN lcur.unstakingEvents # DOMAIN lparent.unstakingEvents

\* The addresses that scheduled, while they held a stakeBalances entry, a
\* release for the given height and hold no entry in block b any more: only
\* punishCheater removes an entry, so they were slashed in between.
slashedBeforeRelease(log, b, height) ==
  {log[i].clientID : i \in {j \in 1..Len(log) :
                              /\ log[j].bonded
                              /\ log[j].height + UNSTAKE_DELAY = height
                              /\ ~MHas(b.stakeBalances, log[j].clientID)}}

\* C20: when the block of a height is constructed and a release of that height
\* belongs to an address that was slashed after scheduling it, the release is
\* skipped: the address gets no stakeBalances entry, the entry of every
\* address without a release at that height is unchanged, and the total
\* bonded stake is a non-negative integer.
C20_SlashedUnstakeSkipped ==
  [][(lcur'.chainLength # lcur.chainLength
      /\ slashedBeforeRelease(llog.unstakes, lcur, lcur'.chainLength) # {}) =>
       /\ \A addr \in slashedBeforeRelease(llog.unstakes, lcur, lcur'.chainLength) :
            ~MHas(lcur'.stakeBalances, addr)
       /\ \A addr \in LedgerAddr :
            MaturingAt(llog.unstakes, addr, lcur'.chainLength) = 0 =>
              /\ MHas(lcur'.stakeBalances, addr) = MHas(lcur.stakeBalances, addr)
              /\ MHas(lcur.stakeBalances, addr) =>
                   MGet(lcur'.stakeBalances, addr) = MGet(lcur.stakeBalances, addr)
       /\ getTotalStake(lcur') # NaN /\ getTotalStake(lcur') >= 0]_vars

\* C21: after an Evidence transaction has slashed a cheater, the cheater has
\* no entry in stakeBalances, no entry in accumPower, and no record in any
\* queue of unstakingEvents.
C21_CheaterEjected ==
  [][(llog'.evidence # NoEvidence /\ isEvidence(llog'.evidence[1], llog'.evidence[2]))
     => LET cheater == llog'.evidence[1].from
        IN  /\ ~MHas(lcur'.stakeBalances, cheater)
            /\ ~MHas(lcur'.accumPower, cheater)
            /\ \A h \in DOMAIN lcur'.unstakingEvents :
                 \A i \in 1..Len(lheap'[lcur'.unstakingEvents[h]]) :
                   lheap'[lcur'.unstakingEvents[h]][i].clientID # cheater]_vars

-----------------------------------------------------------------------------
(* SpecProposer: a validator's proposer selection over the rounds of one    *)
(* height, on a stake table that does not change.                           *)

MaxN == 4

MaxStake == 3

MaxPower == 3

MaxSelections == 13

AddrSeq == <<"a", "b", "c", "d", "e">>

\* A Map with the first n addresses as keys, in that order.
TableOf(n, f) == [i \in 1..n |-> [k |-> AddrSeq[i], v |-> f[i]]]

Table400 == TableOf(4, <<400, 100, 100, 100>>)

\* updateRoundAccumPower without the proposer's debit.
updateRoundAccumPowerNoDebit(power, stake, proposerAddr) == addBonded(power, stake)

\* updateRoundAccumPower debiting the proposer's own stake, not the total.
updateRoundAccumPowerOwnDebit(power, stake, proposerAddr) ==
  LET raised == addBonded(power, stake)
      own == IF MHas(stake, proposerAddr) THEN MGet(stake, proposerAddr) ELSE NaN
      currentPower == IF MHas(raised, proposerAddr) THEN MGet(raised, proposerAddr) ELSE NaN
  IN  MSet(raised, proposerAddr, JsSub(currentPower, own))

\* Validator.updateRoundAccumPower on (roundAccumPower, currentBlock.stakeBalances)
updateRoundAccumPower(power, stake, proposerAddr) ==
  LET raised == addBonded(power, stake)
      totalBonded == MSum(stake)
      currentPower == IF MHas(raised, proposerAddr) THEN MGet(raised, proposerAddr) ELSE NaN
  IN  MSet(raised, proposerAddr, JsSub(currentPower, totalBonded))

\* Validator.determineProposer: the new currentProposer and roundAccumPower.
determineProposer(power, stake, currentProposer) ==
  LET proposer == scanProposer(power, currentProposer, 0)
  IN  [currentProposer |-> proposer,
       roundAccumPower |-> updateRoundAccumPower(power, stake, proposer)]

ProposerIdle == <<>>

\* The stake is a genesis table (accumPower = stake) whose addresses were
\* inserted in any order, or N validators of equal stake with one equal power.
ProposerInit ==
  /\ \E n \in 2..MaxN :
       \/ \E f \in [1..n -> 1..MaxStake], order \in Permutations(1..n) :
            LET table == [i \in 1..n |-> TableOf(n, f)[order[i]]]
            IN  psel = [stake |-> table, power |-> table,
                        power0 |-> table, proposer |-> NoAddr, log |-> <<>>]
       \/ \E st \in 1..MaxStake, pw \in 1..MaxPower :
            psel = [stake |-> TableOf(n, [i \in 1..n |-> st]),
                    power |-> TableOf(n, [i \in 1..n |-> pw]),
                    power0 |-> TableOf(n, [i \in 1..n |-> pw]),
                    proposer |-> NoAddr, log |-> <<>>]
       \/ /\ n = 4
          /\ psel = [stake |-> Table400, power |-> Table400, power0 |-> Table400,
                     proposer |-> NoAddr, log |-> <<>>]
  /\ lcur = ProposerIdle /\ lparent = ProposerIdle /\ lheap = ProposerIdle
  /\ llog = ProposerIdle /\ val = ProposerIdle /\ net = ProposerIdle /\ hist = ProposerIdle

\* One round: newRound calls determineProposer.
PDetermineProposer ==
  /\ Len(psel.log) < MaxSelections
  /\ LET r == determineProposer(psel.power, psel.stake, psel.proposer)
     IN  psel' = [psel EXCEPT !.power = r.roundAccumPower,
                              !.proposer = r.currentProposer,
                              !.log = Append(@, r.currentProposer)]
  /\ UNCHANGED <<lcur, lparent, lheap, llog, val, net, hist>>

ProposerNext == PDetermineProposer

SpecProposer == ProposerInit /\ [][ProposerNext]_vars

\* The number of times addr was selected.
Selected(log, addr) == Cardinality({i \in 1..Len(log) : log[i] = addr})

\* C8: from the genesis accumPower, after k calls of determineProposer every
\* validator v has been selected a number of times that differs from
\* k * stake_v / totalStake by at most 1; with stakes {400, 100, 100, 100}
\* the first 7 rounds select the first validator 4 times and the others once.
C8_ProposerFairness ==
  psel.power0 = psel.stake =>
    LET k == Len(psel.log)
        total == MSum(psel.stake)
    IN  /\ \A i \in 1..Len(psel.stake) :
             LET d == total * Selected(psel.log, psel.stake[i].k) - k * psel.stake[i].v
             IN  d <= total /\ 0 - d <= total
        /\ (psel.stake = Table400 /\ k = 7) =>
             /\ Selected(psel.log, "a") = 4
             /\ \A v \in {"b", "c", "d"} : Selected(psel.log, v) = 1

C8_Witness ==
  /\ psel.stake = Table400 /\ Len(psel.log) = 7
  /\ Selected(psel.log, "a") = 4

EqualTable(m) == \A i, j \in 1..Len(m) : m[i].v = m[j].v

C22_ProposerTieBreak ==
  [][psel'.log # psel.log =>
       LET power == psel.power
           best == {i \in 1..Len(power) : \A j \in 1..Len(power) : power[j].v <= power[i].v}
           place(addr) == CHOOSE n \in 1..Len(AddrSeq) : AddrSeq[n] = addr
       IN  \E i \in best :
             /\ psel'.proposer = power[i].k
             /\ \A j \in best : place(power[i].k) <= place(power[j].k)]_vars

-----------------------------------------------------------------------------
(* The validator: votes, vote boxes and the tally.                          *)

\* The value of a field that is not set (lockedBlock, nextBlock, a tally
\* without a winner).
Undefined == -1

\* Vote.id: the hash of from, height, round, type, blockID and pubKey.
voteId(vote) == <<vote.from, vote.height, vote.round, vote.type, vote.blockID, vote.signer>>

\* Vote.hasValidSignature
hasValidSignature(vote) == vote.signer = vote.from

\* isValid without the exception for commits.
isValidEveryPhase(vote, height, round) ==
  /\ ~(height > vote.height)
  /\ ~(round > vote.round)
  /\ hasValidSignature(vote)

\* Vote.isValid(validator)
isValid(vote, height, round) ==
  /\ ~(height > vote.height)
  /\ ~(round > vote.round /\ vote.type # COMMIT)
  /\ hasValidSignature(vote)

\* Vote.fresherThan
fresherThan(vote, otherVote) ==
  \/ vote.height > otherVote.height
  \/ vote.height = otherVote.height /\ vote.round > otherVote.round

\* Vote.isStale(height, round): a vote of a lower height, or of a lower round
\* unless it is a commit.
isStale(vote, height, round) ==
  \/ vote.height < height
  \/ vote.round < round /\ vote.type # COMMIT

\* verifyAndVote that stores every valid vote, whatever the box holds.
verifyAndVoteLatest(vote, ballotBox, height, round) ==
  IF ~isValid(vote, height, round) THEN [box |-> ballotBox, evidence |-> <<>>]
  ELSE [box |-> MSet(ballotBox, vote.from, vote), evidence |-> <<>>]

\* Validator.verifyAndVote: the ballot box afterwards, and the evidence posted.
verifyAndVote(vote, ballotBox, height, round) ==
  IF ~isValid(vote, height, round) THEN [box |-> ballotBox, evidence |-> <<>>]
  ELSE IF ~MHas(ballotBox, vote.from)
       THEN [box |-> MSet(ballotBox, vote.from, vote), evidence |-> <<>>]
       ELSE LET currentVote == MGet(ballotBox, vote.from)
            IN  IF fresherThan(vote, currentVote)
                THEN [box |-> MSet(ballotBox, vote.from, vote), evidence |-> <<>>]
                ELSE IF fresherThan(currentVote, vote) \/ voteId(currentVote) = voteId(vote)
                     THEN [box |-> ballotBox, evidence |-> <<>>]
                     ELSE [box |-> MSet(ballotBox, vote.from, vote),
                           evidence |-> <<currentVote, vote>>]

\* The loop of countVotes over Object.keys(ballotBox): candidateBlocks and
\* the winner so far.
RECURSIVE tally(_, _, _, _, _, _, _)
tally(box, stakeBlock, votesNeeded, height, round, candidateBlocks, winningBlockID) ==
  IF box = <<>> THEN winningBlockID
  ELSE LET vote == box[1].v
           stake == amountGoldStaked(stakeBlock, box[1].k)
       IN  IF isStale(vote, height, round)
           THEN tally(Tail(box), stakeBlock, votesNeeded, height, round,
                      candidateBlocks, winningBlockID)
           ELSE LET before == IF MHas(candidateBlocks, vote.blockID)
                              THEN OrZero(MGet(candidateBlocks, vote.blockID)) ELSE 0
                    currentVotes == before + stake
                IN  tally(Tail(box), stakeBlock, votesNeeded, height, round,
                          MSet(candidateBlocks, vote.blockID, currentVotes),
                          IF votesNeeded # NaN /\ 3 * currentVotes > votesNeeded
                          THEN vote.blockID ELSE winningBlockID)

\* Validator.countVotes.  votesNeeded = 2 * totalStake / 3 is kept as the
\* numerator 2 * totalStake and compared with 3 * currentVotes.
countVotes(ballotBox, stakeBlock, height, round) ==
  LET totalStake == getTotalStake(stakeBlock)
      votesNeeded == IF totalStake = NaN THEN NaN ELSE 2 * totalStake
  IN  tally(ballotBox, stakeBlock, votesNeeded, height, round, <<>>, Undefined)

-----------------------------------------------------------------------------
(* Blocks, transactions and proposals as the validator handles them.        *)

GenesisId == BlockId(0, 0, 0)

\* The unstaking queues of the blocks the validators build: no Unstake is
\* posted to them, so there is none.
NoHeap == <<>>

\* StakeBlock.addTransaction, once Block.addTransaction accepted tx.
addTransaction(b, tx) ==
  CASE tx.type = STAKE -> stakeGold(b, tx.from, tx.amount)
    [] tx.type = UNSTAKE -> unstakeGold(b, NoHeap, tx.from, tx.amount).blk
    [] tx.type = EVIDENCE -> punishCheater(b, tx.msg1, tx.msg2)
    [] OTHER -> b

RECURSIVE addTransactions(_, _)
addTransactions(b, txs) ==
  IF txs = <<>> THEN b ELSE addTransactions(addTransaction(b, txs[1]), Tail(txs))

\* StakeBlock.rerun(prevBlock) of the block a proposal carries.
rerun(block, prevBlock) ==
  LET copied == [chainLength |-> block.chainLength,
                 rewardAddr |-> block.rewardAddr,
                 balances |-> prevBlock.balances,
                 stakeBalances |-> prevBlock.stakeBalances,
                 unstakingEvents |-> prevBlock.unstakingEvents,
                 accumPower |-> prevBlock.accumPower]
  IN  addTransactions(
        handleUnstakingEvents(updateAccumPower(copied, block.rewardAddr), NoHeap),
        block.txs)

\* The block of an id as a validator stores it: the genesis block, or the
\* proposed block rerun on its stored parent.
RECURSIVE storedBlock(_, _)
storedBlock(blocks, id) ==
  IF id = GenesisId THEN LedgerGenesis
  ELSE rerun(blocks[id], storedBlock(blocks, blocks[id].prev))

\* Proposal.isValid: the signature verifies and from matches the key, the
\* block's height is the proposal's height, and blockID is the block's hash.
isValidProposal(proposal, blocks) ==
  /\ hasValidSignature(proposal)
  /\ proposal.blockID \in DOMAIN blocks
  /\ blocks[proposal.blockID].chainLength = proposal.height

\* Set.add on the transaction pool (a transaction the block would reject as
\* a duplicate is not added twice).
poolAdd(transactions, tx) ==
  IF \E i \in 1..Len(transactions) : transactions[i] = tx THEN transactions
  ELSE Append(transactions, tx)

\* Validator.postEvidenceTransaction
postEvidenceTransaction(address, oldMessage, newMessage) ==
  Tx(EVIDENCE, address, 0, oldMessage, newMessage)

\* A new block id for a block made at (height, round).
freshBlockId(blocks, height, round) ==
  BlockId(height, round,
          Cardinality({id \in DOMAIN blocks :
                         blocks[id].chainLength = height /\ blocks[id].round = round}))

\* Miner.startNewSearch then Validator.startNewSearch: a new block on
\* lastBlock takes the pooled transactions; roundAccumPower, height and round
\* are reset from it.
startNewSearch(s, blocks) ==
  LET made == newStakeBlock(s.address, storedBlock(blocks, s.lastBlock), NoHeap)
      currentBlock == addTransactions(made, s.transactions)
  IN  [s EXCEPT !.currentBlock = currentBlock,
                !.transactions = <<>>,
                !.roundAccumPower = currentBlock.accumPower,
                !.height = currentBlock.chainLength,
                !.round = 0]

-----------------------------------------------------------------------------
(* The validator's handlers.  Each takes the validator's fields s and the   *)
(* blocks made so far and gives the fields afterwards, the messages and     *)
(* transactions it broadcasts, and the blocks it made.                      *)

Effect(s, msgs, txs, blocks) == [s |-> s, msgs |-> msgs, txs |-> txs, blocks |-> blocks]

\* Validator.shareProposal
shareProposal(s, blockID) == Msg(s.address, s.height, s.round, PROPOSAL, blockID, s.address)

\* Validator.proposeBlock
proposeBlock(s, blocks) ==
  LET made == newStakeBlock(s.address, storedBlock(blocks, s.lastBlock), NoHeap)
      filled == addTransactions(made, s.transactions)
      id == freshBlockId(blocks, s.height, s.round)
      block == [chainLength |-> made.chainLength, round |-> s.round,
                rewardAddr |-> s.address, prev |-> s.lastBlock, txs |-> s.transactions]
      after == [s EXCEPT !.currentBlock = updateAccumPower(filled, s.address),
                         !.transactions = <<>>]
  IN  Effect(after, {shareProposal(after, id)}, {},
             [x \in DOMAIN blocks \cup {id} |-> IF x = id THEN block ELSE blocks[x]])

\* The loop of newRound over Object.keys(this.commits).
RECURSIVE copyCommits(_, _)
copyCommits(box, commits) ==
  IF commits = <<>> THEN box
  ELSE copyCommits(MSet(box, commits[1].k, commits[1].v), Tail(commits))

\* Validator.newRound
newRound(s, blocks) ==
  IF s.nextBlock # Undefined THEN Effect([s EXCEPT !.pc = "stopped"], {}, {}, blocks)
  ELSE LET sel == determineProposer(s.roundAccumPower, s.currentBlock.stakeBalances,
                                    s.currentProposer)
           started == [s EXCEPT !.round = @ + 1,
                                !.prevotes = copyCommits(@, s.commits),
                                !.precommits = copyCommits(@, s.commits),
                                !.currentProposer = sel.currentProposer,
                                !.roundAccumPower = sel.roundAccumPower,
                                !.pc = "prevote"]
       IN  IF started.address # started.currentProposer
           THEN Effect(started, {}, {}, blocks)
           ELSE IF started.lockedBlock # Undefined
                THEN Effect(started, {shareProposal(started, started.lockedBlock)}, {}, blocks)
                ELSE proposeBlock(started, blocks)

\* Validator.collectProposal
collectProposal(s, proposal, blocks) ==
  LET pushed == [s EXCEPT !.proposals = Append(@, proposal)]
  IN  IF proposal.blockID \notin DOMAIN blocks
         \/ blocks[proposal.blockID].prev \notin s.chain
      THEN pushed
      ELSE [pushed EXCEPT !.proposedBlocks = @ \cup {proposal.blockID}]

\* The loop of prevote over this.proposals: bestProposal and the evidence
\* transactions posted on the way.
RECURSIVE scanProposals(_, _, _, _, _)
scanProposals(proposals, blocks, address, bestProposal, posted) ==
  IF proposals = <<>> THEN [bestProposal |-> bestProposal, posted |-> posted]
  ELSE LET proposal == proposals[1]
       IN  IF ~isValidProposal(proposal, blocks)
           THEN scanProposals(Tail(proposals), blocks, address, bestProposal, posted)
           ELSE IF bestProposal = NoMsg
                THEN scanProposals(Tail(proposals), blocks, address, proposal, posted)
                ELSE IF bestProposal.blockID = proposal.blockID
                     THEN scanProposals(Tail(proposals), blocks, address, bestProposal, posted)
                     ELSE scanProposals(Tail(proposals), blocks, address, bestProposal,
                            Append(posted,
                                   postEvidenceTransaction(address, bestProposal, proposal)))

RECURSIVE poolAddAll(_, _)
poolAddAll(transactions, txs) ==
  IF txs = <<>> THEN transactions ELSE poolAddAll(poolAdd(transactions, txs[1]), Tail(txs))

Range(f) == {f[i] : i \in 1..Len(f)}

\* Vote.makeVote
makeVote(s, type, blockID) == Msg(s.address, s.height, s.round, type, blockID, s.address)

\* prevote without the lock check: the best proposal, or NIL.
prevoteUnlocked(s, blocks) ==
  LET scan == scanProposals(s.proposals, blocks, s.address, NoMsg, <<>>)
      vote == IF scan.bestProposal = NoMsg THEN makeVote(s, PREVOTE, NIL)
              ELSE makeVote(s, PREVOTE, scan.bestProposal.blockID)
  IN  Effect([s EXCEPT !.proposals = <<>>,
                       !.transactions = poolAddAll(@, scan.posted),
                       !.pc = "precommit"],
             {vote}, Range(scan.posted), blocks)

\* Validator.prevote
prevote(s, blocks) ==
  LET scan == IF s.lockedBlock # Undefined THEN [bestProposal |-> NoMsg, posted |-> <<>>]
              ELSE scanProposals(s.proposals, blocks, s.address, NoMsg, <<>>)
      vote == IF s.lockedBlock # Undefined THEN makeVote(s, PREVOTE, s.lockedBlock)
              ELSE IF scan.bestProposal = NoMsg THEN makeVote(s, PREVOTE, NIL)
                   ELSE makeVote(s, PREVOTE, scan.bestProposal.blockID)
  IN  Effect([s EXCEPT !.proposals = <<>>,
                       !.transactions = poolAddAll(@, scan.posted),
                       !.pc = "precommit"],
             {vote}, Range(scan.posted), blocks)

\* proposedBlocks[blockID]: the stored block, or undefined.
proposedBlock(s, blockID) == IF blockID \in s.proposedBlocks THEN blockID ELSE Undefined

\* Validator.collectPrevote, collectPrecommit and collectCommit: verifyAndVote
\* on the box of the vote's channel, and the evidence transaction it posts.
collectVote(s, vote) ==
  LET box == CASE vote.type = PREVOTE -> s.prevotes
               [] vote.type = PRECOMMIT -> s.precommits
               [] OTHER -> s.commits
      r == verifyAndVote(vote, box, s.height, s.round)
      posted == IF r.evidence = <<>> THEN <<>>
                ELSE <<postEvidenceTransaction(s.address, r.evidence[1], r.evidence[2])>>
      stored == CASE vote.type = PREVOTE -> [s EXCEPT !.prevotes = r.box]
                  [] vote.type = PRECOMMIT -> [s EXCEPT !.precommits = r.box]
                  [] OTHER -> [s EXCEPT !.commits = r.box]
  IN  Effect([stored EXCEPT !.transactions = poolAddAll(@, posted)], {}, Range(posted), <<>>)

\* precommit that keeps the lock when NIL wins the tally.
precommitKeepingLock(s) ==
  LET winningBlockID == countVotes(s.prevotes, s.currentBlock, s.height, s.round)
      counted == [s EXCEPT !.prevotes = <<>>, !.pc = "commitDecision"]
  IN  IF winningBlockID = Undefined \/ winningBlockID = NIL
      THEN Effect(counted, {}, {}, <<>>)
      ELSE LET locked == [counted EXCEPT !.lockedBlock = proposedBlock(s, winningBlockID)]
           IN  Effect(locked, {makeVote(locked, PRECOMMIT, winningBlockID)}, {}, <<>>)

\* Validator.precommit
precommit(s) ==
  LET winningBlockID == countVotes(s.prevotes, s.currentBlock, s.height, s.round)
      counted == [s EXCEPT !.prevotes = <<>>, !.pc = "commitDecision"]
  IN  IF winningBlockID = Undefined THEN Effect(counted, {}, {}, <<>>)
      ELSE IF winningBlockID = NIL
           THEN Effect([counted EXCEPT !.lockedBlock = Undefined], {}, {}, <<>>)
           ELSE LET locked == [counted EXCEPT !.lockedBlock = proposedBlock(s, winningBlockID)]
                IN  Effect(locked, {makeVote(locked, PRECOMMIT, winningBlockID)}, {}, <<>>)

\* Validator.commit
commit(s, winningBlockID) ==
  LET committed == [s EXCEPT !.nextBlock = proposedBlock(s, winningBlockID),
                             !.pc = "finalizeCommit"]
  IN  Effect(committed, {makeVote(committed, COMMIT, winningBlockID)}, {}, <<>>)

\* Validator.commitDecision
commitDecision(s) ==
  LET winningBlockID == countVotes(s.precommits, s.currentBlock, s.height, s.round)
      counted == [s EXCEPT !.precommits = <<>>]
  IN  IF winningBlockID = Undefined \/ winningBlockID = NIL
      THEN Effect([counted EXCEPT !.pc = "newRound"], {}, {}, <<>>)
      ELSE commit(counted, winningBlockID)

\* Validator.finalizeCommit.  Without a winner the log line reads
\* this.nextBlock.id, which throws when nextBlock is undefined: the callback
\* ends there and sets no timer.
finalizeCommit(s) ==
  LET winningBlockID == countVotes(s.commits, s.currentBlock, s.height, s.round)
  IN  IF winningBlockID = Undefined
      THEN IF s.nextBlock = Undefined THEN [s EXCEPT !.pc = "crashed"] ELSE s
      ELSE [s EXCEPT !.commits = <<>>, !.pc = "newHeight"]

\* Validator.newHeight.  With nextBlock undefined, announceProof and
\* receiveBlock are handed undefined and throw: the callback ends there.
newHeight(s, blocks) ==
  IF s.nextBlock = Undefined THEN Effect([s EXCEPT !.pc = "crashed"], {}, {}, blocks)
  ELSE LET installed == [s EXCEPT !.lastBlock = s.nextBlock,
                                  !.chain = @ \cup {s.nextBlock},
                                  !.installed = Append(@, s.nextBlock),
                                  !.nextBlock = Undefined,
                                  !.lockedBlock = Undefined]
       IN  newRound(startNewSearch(installed, blocks), blocks)

\* Validator.addTransaction
addPosted(s, tx) == [s EXCEPT !.transactions = poolAdd(@, tx)]

\* Validator.initialize on the genesis block, up to the first timer.
initialValidator(address) ==
  startNewSearch(
    [address |-> address, pc |-> "newRound", height |-> 0, round |-> 0,
     currentProposer |-> NoAddr, roundAccumPower |-> <<>>,
     currentBlock |-> LedgerGenesis, lastBlock |-> GenesisId, chain |-> {GenesisId},
     installed |-> <<>>, transactions |-> <<>>, proposals |-> <<>>,
     proposedBlocks |-> {}, lockedBlock |-> Undefined, nextBlock |-> Undefined,
     prevotes |-> <<>>, precommits |-> <<>>, commits |-> <<>>],
    <<>>)

-----------------------------------------------------------------------------
(* The validator's actions: a timer fires, or a broadcast is handed to a    *)
(* listener.  A broadcast may reach a validator, its sender included,       *)
(* before the timer that uses it fires, or be lost to that validator.       *)

MaxRound == 2

MaxHeight == 1

MaxProposals == 2

Running(v) == val[v].pc \notin {"crashed", "stopped"} /\ val[v].height <= MaxHeight

Broadcast(eff) ==
  net' = [msgs |-> net.msgs \cup eff.msgs, txs |-> net.txs \cup eff.txs]

LedgerUnused == <<lcur, lparent, lheap, llog, psel>>

NewRound(v) ==
  /\ Running(v) /\ val[v].pc = "newRound" /\ val[v].round < MaxRound
  /\ LET eff == newRound(val[v], hist.blocks)
     IN  /\ val' = [val EXCEPT ![v] = eff.s]
         /\ Broadcast(eff)
         /\ hist' = [hist EXCEPT !.blocks = eff.blocks]
  /\ UNCHANGED LedgerUnused

CollectProposal(v, proposal) ==
  /\ Running(v) /\ proposal \in net.msgs /\ proposal.type = PROPOSAL
  /\ Len(val[v].proposals) < MaxProposals
  /\ val' = [val EXCEPT ![v] = collectProposal(val[v], proposal, hist.blocks)]
  /\ UNCHANGED <<net, hist, LedgerUnused>>

Prevote(v) ==
  /\ Running(v) /\ val[v].pc = "prevote"
  /\ LET eff == prevote(val[v], hist.blocks)
     IN  /\ val' = [val EXCEPT ![v] = eff.s]
         /\ Broadcast(eff)
  /\ UNCHANGED <<hist, LedgerUnused>>

CollectVote(v, vote, type) ==
  /\ Running(v) /\ vote \in net.msgs /\ vote.type = type
  /\ LET eff == collectVote(val[v], vote)
     IN  /\ val' = [val EXCEPT ![v] = eff.s]
         /\ Broadcast(eff)
  /\ UNCHANGED <<hist, LedgerUnused>>

CollectPrevote(v, vote) == CollectVote(v, vote, PREVOTE)

CollectPrecommit(v, vote) == CollectVote(v, vote, PRECOMMIT)

CollectCommit(v, vote) == CollectVote(v, vote, COMMIT)

Precommit(v) ==
  /\ Running(v) /\ val[v].pc = "precommit"
  /\ LET eff == precommit(val[v])
     IN  /\ val' = [val EXCEPT ![v] = eff.s]
         /\ Broadcast(eff)
  /\ UNCHANGED <<hist, LedgerUnused>>

CommitDecision(v) ==
  /\ Running(v) /\ val[v].pc = "commitDecision"
  /\ LET eff == commitDecision(val[v])
     IN  /\ val' = [val EXCEPT ![v] = eff.s]
         /\ Broadcast(eff)
  /\ UNCHANGED <<hist, LedgerUnused>>

FinalizeCommit(v) ==
  /\ Running(v) /\ val[v].pc = "finalizeCommit"
  /\ val' = [val EXCEPT ![v] = finalizeCommit(val[v])]
  /\ UNCHANGED <<net, hist, LedgerUnused>>

NewHeight(v) ==
  /\ Running(v) /\ val[v].pc = "newHeight"
  /\ LET eff == newHeight(val[v], hist.blocks)
     IN  /\ val' = [val EXCEPT ![v] = eff.s]
         /\ Broadcast(eff)
         /\ hist' = [hist EXCEPT !.blocks = eff.blocks]
  /\ UNCHANGED LedgerUnused

AddTransaction(v, tx) ==
  /\ Running(v) /\ tx \in net.txs
  /\ val' = [val EXCEPT ![v] = addPosted(val[v], tx)]
  /\ UNCHANGED <<net, hist, LedgerUnused>>

\* Validator.postStakingTransaction: the transaction is broadcast and added
\* to the validator's own pool.
PostStakingTransaction(v, amount) ==
  /\ Running(v)
  /\ amount <= balanceOf(storedBlock(hist.blocks, val[v].lastBlock), v)
                 - amountGoldStaked(storedBlock(hist.blocks, val[v].lastBlock), v)
  /\ LET tx == Tx(STAKE, v, amount, NoMsg, NoMsg)
     IN  /\ tx \notin net.txs
         /\ val' = [val EXCEPT ![v] = addPosted(val[v], tx)]
         /\ net' = [net EXCEPT !.txs = @ \cup {tx}]
  /\ UNCHANGED <<hist, LedgerUnused>>

-----------------------------------------------------------------------------
(* Spec: the validators of the genesis block, all following the protocol.   *)
(* Their timers run at the same pace: a timer fires at a validator only     *)
(* when no other validator is still in an earlier phase.                    *)

Validators == {"a", "b", "c"}

StakeOffer == 6

PhaseIndex(pc) ==
  CASE pc = "newRound" -> 0
    [] pc = "prevote" -> 1
    [] pc = "precommit" -> 2
    [] pc = "commitDecision" -> 3
    [] OTHER -> 4

\* The position of a validator's pending timer.
Position(v) == 100 * val[v].height + 10 * val[v].round + PhaseIndex(val[v].pc)

Waiting(v) == val[v].pc \in {"finalizeCommit", "newHeight", "crashed", "stopped"}

Rank(v) == CHOOSE i \in 1..Len(AddrSeq) : AddrSeq[i] = v

Active(w) ==
  /\ Running(w) /\ ~Waiting(w)
  /\ ~(val[w].pc = "newRound" /\ val[w].round >= MaxRound)

boxOf(v, type) ==
  CASE type = PREVOTE -> val[v].prevotes
    [] type = PRECOMMIT -> val[v].precommits
    [] OTHER -> val[v].commits

\* The votes on the network that the validator's next tally would count and
\* that it has not yet heard.
Pending(v, type) ==
  {m \in net.msgs : /\ m.type = type /\ m.height = val[v].height
                    /\ (type = COMMIT \/ m.round = val[v].round)
                    /\ ~MHas(boxOf(v, type), m.from)}

Heard(v, type) ==
  {k \in MKeySet(boxOf(v, type)) :
     LET vote == MGet(boxOf(v, type), k)
     IN  vote.height = val[v].height /\ (type = COMMIT \/ vote.round = val[v].round)}

\* A committed validator that has heard every commit and still has no
\* block to install only repeats finalizeCommit.
Settled(w) ==
  val[w].pc = "finalizeCommit" /\ Pending(w, COMMIT) = {} /\ finalizeCommit(val[w]) = val[w]

\* One validator at a time: the one whose pending timer is the earliest, the
\* lower address first among equals.  A validator that has committed waits
\* for the others to finish their rounds.
Turn(v) ==
  IF Active(v)
  THEN \A w \in DOMAIN val :
         \/ w = v \/ ~Active(w)
         \/ Position(w) > Position(v)
         \/ (Position(w) = Position(v) /\ Rank(w) > Rank(v))
  ELSE \A w \in DOMAIN val :
         /\ ~Active(w)
         /\ (Waiting(w) /\ Running(w) /\ Rank(w) < Rank(v)) => Settled(w)

\* The proposals on the network that the validator has not yet heard.
PendingProposals(v) ==
  {m \in net.msgs : /\ m.type = PROPOSAL /\ m.height = val[v].height
                    /\ m \notin Range(val[v].proposals)
                    /\ m.blockID \notin val[v].proposedBlocks}

\* The network hands a validator a message while the validator waits for the
\* timer that uses it, proposals in the order of their blocks and votes in
\* the order of their senders.
InTime(v, m) ==
  IF m.type = PROPOSAL
  THEN /\ m \in PendingProposals(v)
       /\ \A o \in PendingProposals(v) : o.blockID >= m.blockID
  ELSE /\ m \in Pending(v, m.type)
       /\ \A o \in Pending(v, m.type) : Rank(o.from) >= Rank(m.from)

\* A timer fires when the validator has heard every message sent to it for
\* the step, or none of them (the validator was cut off for the phase).
\* finalizeCommit is retried until every commit has been heard.
InStep(v) ==
  CASE val[v].pc = "prevote" -> val[v].proposals = <<>> \/ PendingProposals(v) = {}
    [] val[v].pc = "precommit" -> Heard(v, PREVOTE) = {} \/ Pending(v, PREVOTE) = {}
    [] val[v].pc = "commitDecision" -> Heard(v, PRECOMMIT) = {} \/ Pending(v, PRECOMMIT) = {}
    [] val[v].pc = "finalizeCommit" -> Pending(v, COMMIT) = {}
    [] OTHER -> TRUE

MaxPosted == 1

Stakers == {"b"}

Init ==
  /\ val = [v \in Validators |-> initialValidator(v)]
  /\ net = [msgs |-> {}, txs |-> {}]
  /\ hist = [blocks |-> <<>>]
  /\ lcur = LedgerIdle /\ lparent = LedgerIdle /\ lheap = LedgerIdle
  /\ llog = LedgerIdle /\ psel = LedgerIdle

Next ==
  \/ \E v \in Validators : Turn(v) /\ NewRound(v)
  \/ \E v \in Validators :
       /\ val[v].pc = "prevote" /\ Turn(v)
       /\ \E proposal \in net.msgs : InTime(v, proposal) /\ CollectProposal(v, proposal)
  \/ \E v \in Validators : Turn(v) /\ InStep(v) /\ Prevote(v)
  \/ \E v \in Validators :
       /\ val[v].pc = "precommit" /\ Turn(v)
       /\ \E vote \in net.msgs : InTime(v, vote) /\ CollectPrevote(v, vote)
  \/ \E v \in Validators : Turn(v) /\ InStep(v) /\ Precommit(v)
  \/ \E v \in Validators :
       /\ val[v].pc = "commitDecision" /\ Turn(v)
       /\ \E vote \in net.msgs : InTime(v, vote) /\ CollectPrecommit(v, vote)
  \/ \E v \in Validators : Turn(v) /\ InStep(v) /\ CommitDecision(v)
  \/ \E v \in Validators :
       /\ val[v].pc = "finalizeCommit" /\ Turn(v)
       /\ \E vote \in net.msgs : InTime(v, vote) /\ CollectCommit(v, vote)
  \/ \E v \in Validators : Turn(v) /\ InStep(v) /\ FinalizeCommit(v)
  \/ \E v \in Validators : Turn(v) /\ NewHeight(v)
  \/ \E v \in Validators :
       /\ val[v].pc = "newRound" /\ val[v].round = 0 /\ Turn(v)
       /\ \E tx \in net.txs : tx \notin Range(val[v].transactions) /\ AddTransaction(v, tx)
  \/ \E v \in Stakers :
       /\ Cardinality(net.txs) < MaxPosted /\ net.msgs = {}
       /\ \A w \in Validators : val[w].round = 0
       /\ PostStakingTransaction(v, StakeOffer)

Spec == Init /\ [][Next]_vars

-----------------------------------------------------------------------------
(* Consensus claims over Spec.  Every validator follows the protocol; the   *)
(* bonded stake of height 1 is the stake of the genesis block.              *)

\* The bonded stake, in the block all validators build on, of the validators
\* that broadcast a vote of the type for the block in the round.
votersFor(type, height, round, blockID) ==
  {m.from : m \in {n \in net.msgs : /\ n.type = type /\ n.height = height
                                    /\ n.round = round /\ n.blockID = blockID}}

bondedStake(voters) ==
  MSum(SelectSeq(LedgerGenesis.stakeBalances, LAMBDA e : e.k \in voters))

collects(type, height, round, blockID) ==
  3 * bondedStake(votersFor(type, height, round, blockID)) > 2 * getTotalStake(LedgerGenesis)

\* C1: with all validators following the protocol, no two distinct blocks of
\* one height each collect precommits from more than 2/3 of the bonded stake,
\* in whichever rounds.
C1_SafetyAcrossRounds ==
  \A m1 \in net.msgs : \A m2 \in net.msgs :
    (/\ m1.type = PRECOMMIT /\ m2.type = PRECOMMIT
     /\ m1.height = m2.height
     /\ m1.blockID # NIL /\ m2.blockID # NIL /\ m1.blockID # m2.blockID
     /\ collects(PRECOMMIT, m1.height, m1.round, m1.blockID))
    => ~collects(PRECOMMIT, m2.height, m2.round, m2.blockID)

\* C3: two validators that have both executed newHeight for a height have
\* installed the same block as head of that height.
C3_Agreement ==
  \A v \in DOMAIN val : \A w \in DOMAIN val :
    \A i \in 1..Len(val[v].installed) :
      i <= Len(val[w].installed) => val[v].installed[i] = val[w].installed[i]

\* C4: a validator that follows the protocol reaches newHeight: none of its
\* timers ends in an exception that leaves the validator without a timer
\* before the head of the height is installed.
C4_ReachesNewHeight ==
  \A v \in DOMAIN val : val[v].pc # "crashed"

\* The prevotes a validator broadcasts in the step.
prevotesCast(v) == {m \in net'.msgs \ net.msgs : m.from = v /\ m.type = PREVOTE}

\* C5: once a validator is locked on B, at the same height it prevotes only
\* B.id, and the lock changes only by a release: a tally of its prevotes that
\* gives NIL more than 2/3 of stake.  The lock is never replaced by another
\* block.
C5_Locking ==
  [][\A v \in DOMAIN val :
       (val[v].lockedBlock # Undefined /\ val'[v].height = val[v].height)
       => /\ \A m \in prevotesCast(v) : m.blockID = val[v].lockedBlock
          /\ val'[v].lockedBlock # val[v].lockedBlock
             => /\ val'[v].lockedBlock = Undefined
                /\ countVotes(val[v].prevotes, val[v].currentBlock,
                              val[v].height, val[v].round) = NIL]_vars

\* C5 as amended: once a validator is locked on B, at the same height it
\* prevotes only B.id, and the lock changes only in precommit, when the tally
\* of its prevotes gives more than 2/3 of stake to NIL (the lock is released)
\* or to another block B' (the lock becomes B', or is unset when the
\* validator has not stored B').
C5_LockingUntilTally ==
  [][\A v \in DOMAIN val :
       (val[v].lockedBlock # Undefined /\ val'[v].height = val[v].height)
       => /\ \A m \in prevotesCast(v) : m.blockID = val[v].lockedBlock
          /\ val'[v].lockedBlock # val[v].lockedBlock
             => LET winningBlockID == countVotes(val[v].prevotes, val[v].currentBlock,
                                                 val[v].height, val[v].round)
                IN  /\ val[v].pc = "precommit" /\ val'[v].pc = "commitDecision"
                    /\ winningBlockID \notin {Undefined, val[v].lockedBlock}
                    /\ val'[v].lockedBlock =
                         IF winningBlockID = NIL THEN Undefined
                         ELSE proposedBlock(val[v], winningBlockID)]_vars

\* A validator that precommitted B, prevoted B again in a later round of the
\* height and is now locked on another block.
C5_Witness ==
  \E v \in DOMAIN val : \E m1 \in net.msgs : \E m2 \in net.msgs :
    /\ m1.from = v /\ m1.type = PRECOMMIT /\ m1.height = val[v].height
    /\ m1.blockID \in val[v].proposedBlocks
    /\ m2.from = v /\ m2.type = PREVOTE /\ m2.height = m1.height
    /\ m2.round > m1.round /\ m2.blockID = m1.blockID
    /\ val[v].lockedBlock \notin {Undefined, m1.blockID}

-----------------------------------------------------------------------------
(* SpecTally: the precommit box of one validator.  The validator's          *)
(* currentBlock is a block built on a head of the chain; the other          *)
(* validators sign precommits, at most two each, for the validator's round  *)
(* or for the next round or height, the listener stores them with           *)
(* verifyAndVote and commitDecision tallies them with countVotes.           *)

OverUnstake == 3

\* The next block of the chain, made and closed by the selected proposer.
nextLedger(b, heap) ==
  LET proposer == scanProposer(b.accumPower, b.rewardAddr, 0)
  IN  updateAccumPower(newStakeBlock(proposer, b, heap), proposer)

RECURSIVE grownBy(_, _, _)
grownBy(b, heap, n) ==
  IF n = 0 THEN b
  ELSE LET next == nextLedger(b, heap)
       IN  IF next.chainLength = b.chainLength + 1 THEN grownBy(next, heap, n - 1) ELSE b

\* The head of height UNSTAKE_DELAY + 1 of the chain whose first block
\* carries a's transaction Unstake(OverUnstake).
OverUnstakedHead ==
  LET first == newStakeBlock("a", LedgerGenesis, NoHeap)
      r == unstakeGold(first, NoHeap, "a", OverUnstake)
  IN  [blk |-> grownBy(updateAccumPower(r.blk, "a"), r.heap, UNSTAKE_DELAY), heap |-> r.heap]

\* Miner.startNewSearch on the genesis block and on the head above.
TallyBlocks ==
  {newStakeBlock("a", LedgerGenesis, NoHeap),
   newStakeBlock("a", OverUnstakedHead.blk, OverUnstakedHead.heap)}

TallyVoters == {"a", "b", "c"}

TallyIds(height) == {BlockId(height, 1, 0), BlockId(height, 1, 1)}

TallyInit ==
  /\ lcur \in TallyBlocks
  /\ val = [pc |-> "commitDecision", height |-> lcur.chainLength, round |-> 1,
            precommits |-> <<>>, counted |-> <<>>, winningBlockID |-> Undefined]
  /\ net = [msgs |-> {}, txs |-> {}]
  /\ lparent = LedgerIdle /\ lheap = LedgerIdle /\ llog = LedgerIdle
  /\ psel = LedgerIdle /\ hist = LedgerIdle

\* A validator signs and broadcasts a precommit, of the tallying validator's
\* height and round or of a later one.
TSign(voter, height, round, blockID) ==
  LET vote == Msg(voter, height, round, PRECOMMIT, blockID, voter)
  IN  /\ val.pc = "commitDecision" /\ vote \notin net.msgs
      /\ Cardinality({m \in net.msgs : m.from = voter}) < 2
      /\ net' = [net EXCEPT !.msgs = @ \cup {vote}]
      /\ UNCHANGED val

\* collectPrecommit that stores the vote and posts no evidence.
TCollectPrecommitQuiet(vote) ==
  /\ val.pc = "commitDecision" /\ vote \in net.msgs
  /\ val' = [val EXCEPT !.precommits =
                verifyAndVote(vote, val.precommits, val.height, val.round).box]
  /\ UNCHANGED net

\* Validator.collectPrecommit
TCollectPrecommit(vote) ==
  LET r == verifyAndVote(vote, val.precommits, val.height, val.round)
  IN  /\ val.pc = "commitDecision" /\ vote \in net.msgs
      /\ val' = [val EXCEPT !.precommits = r.box]
      /\ net' = [net EXCEPT !.txs = @ \cup
                   (IF r.evidence = <<>> THEN {}
                    ELSE {postEvidenceTransaction("a", r.evidence[1], r.evidence[2])})]

\* Validator.commitDecision: the tally, the box cleared; counted keeps the box
\* that was tallied.
TCommitDecision ==
  /\ val.pc = "commitDecision"
  /\ val' = [val EXCEPT !.winningBlockID = countVotes(val.precommits, lcur, val.height, val.round),
                        !.counted = val.precommits,
                        !.precommits = <<>>,
                        !.pc = "counted"]
  /\ UNCHANGED net

TallyNext ==
  /\ \/ \E voter \in TallyVoters, blockID \in TallyIds(val.height),
            ahead \in {<<0, 0>>, <<0, 1>>, <<1, 0>>} :
          /\ ahead = <<0, 0>> \/ blockID = BlockId(val.height, 1, 0)
          /\ TSign(voter, val.height + ahead[1], val.round + ahead[2], blockID)
     \/ \E vote \in net.msgs : TCollectPrecommit(vote)
     \/ TCommitDecision
  /\ UNCHANGED <<lcur, lparent, lheap, llog, psel, hist>>

SpecTally == TallyInit /\ [][TallyNext]_vars

\* The validators that have signed two precommits for different blocks.
conflicting ==
  {v \in TallyVoters : \E m1 \in net.msgs : \E m2 \in net.msgs :
     m1.from = v /\ m2.from = v /\ m1.blockID # m2.blockID}

\* The blocks whose total exceeded votesNeeded during the tally of the box:
\* each of them was the winner when its last vote was added.
exceeding(box, stakeBlock, height, round) ==
  {countVotes(SubSeq(box, 1, k), stakeBlock, height, round) : k \in 1..Len(box)}
    \ {Undefined, NIL}

\* C2: when the validators that signed conflicting votes hold at most 1/3 of
\* the bonded stake, no tally of precommits by countVotes has two distinct
\* blocks that each exceed the 2/3 threshold.
C2_SafetyWithinRound ==
  (val.pc = "counted"
     /\ 3 * MSum(SelectSeq(lcur.stakeBalances, LAMBDA e : e.k \in conflicting))
          <= getTotalStake(lcur))
  => Cardinality(exceeding(val.counted, lcur, val.height, val.round)) <= 1

\* The bonded stake, in the validator's currentBlock, of the votes of the
\* tallied box that countVotes counted for the block.
countedStake(box, stakeBlock, height, round, blockID) ==
  MSum(SelectSeq([i \in 1..Len(box) |->
                    [k |-> box[i].k, v |-> amountGoldStaked(stakeBlock, box[i].k)]],
                 LAMBDA e : /\ MGet(box, e.k).blockID = blockID
                            /\ ~isStale(MGet(box, e.k), height, round)))

\* C15: countVotes returns a blockID (NIL included) only if the bonded stake
\* of the counted votes for it is strictly greater than 2/3 of the total
\* bonded stake, and for non-negative stakes the comparison with
\* 2*totalStake/3 agrees with the comparison with floor(2*totalStake/3).
C15_TallyThreshold ==
  val.pc = "counted" =>
    LET totalStake == getTotalStake(lcur)
        won == countedStake(val.counted, lcur, val.height, val.round, val.winningBlockID)
    IN  /\ val.winningBlockID # Undefined => 3 * won > 2 * totalStake
        /\ totalStake >= 0 =>
             \A blockID \in TallyIds(val.height) \cup {NIL} :
               LET currentVotes == countedStake(val.counted, lcur, val.height,
                                                val.round, blockID)
               IN  currentVotes >= 0 =>
                     ((3 * currentVotes > 2 * totalStake)
                        <=> (currentVotes > (2 * totalStake) \div 3))


-----------------------------------------------------------------------------
(* SpecCarry: one validator among peers whose timers run ahead of its own.  *)
(* Nothing in the engine ties a validator's round to the rounds of the      *)
(* others: each one runs on its own setTimeout chain, and the listeners     *)
(* registered in initialize() take a message whenever the network hands it  *)
(* over.  Here the peers "a" and "c" (3 of the 4 bonded coins) have already *)
(* run on their own, and "b" runs its timers while their messages reach it  *)
(* in any order.                                                            *)

RECURSIVE hear(_, _, _)
\* The validator's listeners applied to every message of a set.
hear(s, msgs, blocks) ==
  IF msgs = {} THEN s
  ELSE LET m == CHOOSE x \in msgs : TRUE
           heard == IF m.type = PROPOSAL THEN collectProposal(s, m, blocks)
                    ELSE collectVote(s, m).s
       IN  hear(heard, msgs \ {m}, blocks)

\* The timer of a validator that is at the given step.
timer(s, blocks) ==
  CASE s.pc = "newRound" -> newRound(s, blocks)
    [] s.pc = "prevote" -> [prevote(s, blocks) EXCEPT !.blocks = blocks]
    [] s.pc = "precommit" -> [precommit(s) EXCEPT !.blocks = blocks]
    [] s.pc = "commitDecision" -> [commitDecision(s) EXCEPT !.blocks = blocks]
    [] s.pc = "finalizeCommit" -> newHeight(finalizeCommit(s), blocks)

\* One timer of each peer: the peer takes what the other sent at the previous
\* timer (when it is delivered), then runs its step.  The stages are bound
\* through one-element sets, which makes each of them a value computed once.
bothDo(before, delivered) ==
  CHOOSE after \in
    UNION {UNION {{[a |-> ea.s, c |-> ec.s, sent |-> ea.msgs \cup ec.msgs,
                    msgs |-> st.msgs \cup ea.msgs \cup ec.msgs, blocks |-> ec.blocks]
                   : ec \in {timer(IF delivered THEN hear(st.c, st.sent, ea.blocks)
                                   ELSE st.c, ea.blocks)}}
                  : ea \in {timer(IF delivered THEN hear(st.a, st.sent, st.blocks)
                                  ELSE st.a, st.blocks)}}
           : st \in {before}} : TRUE

RECURSIVE runPeers(_, _)
runPeers(st, deliveries) ==
  IF deliveries = <<>> THEN st
  ELSE runPeers(bothDo(st, Head(deliveries)), Tail(deliveries))

\* The run of "a" and "c": at height 1 they hear each other and commit the
\* proposal of round 1 (newRound, prevote, precommit, commitDecision, then
\* finalizeCommit and newHeight); at height 2 their messages to each other are
\* lost, round 1 ends without a winner (prevote, precommit, commitDecision)
\* and they start round 2 and prevote again.
PeerRun ==
  runPeers([a |-> initialValidator("a"), c |-> initialValidator("c"),
            sent |-> {}, msgs |-> {}, blocks |-> <<>>],
           <<FALSE, TRUE, TRUE, TRUE, TRUE, FALSE, FALSE, FALSE, FALSE, FALSE>>)

\* The late validator "b" has initialized.  Of the peers' messages the commits,
\* the proposal of height 1 and the prevotes of height 2 round 2 are still on
\* their way to it; the rest were lost to it.
CarryInit ==
  /\ val = [v \in {"b"} |-> initialValidator(v)]
  /\ net = [msgs |-> {m \in PeerRun.msgs :
                        \/ m.type = COMMIT
                        \/ m.type = PROPOSAL /\ m.height = 1
                        \/ m.type = PREVOTE /\ m.height = 2 /\ m.round = MaxRound},
            txs |-> {}]
  /\ hist = [blocks |-> PeerRun.blocks]
  /\ lcur = LedgerIdle /\ lparent = LedgerIdle /\ lheap = LedgerIdle
  /\ llog = LedgerIdle /\ psel = LedgerIdle

\* The validator's first timer fires right after initialize(), so its listeners
\* take messages once round 1 has begun.
CarryNext ==
  \/ NewRound("b")
  \/ val["b"].round > 0 /\ \E proposal \in net.msgs : CollectProposal("b", proposal)
  \/ Prevote("b")
  \/ val["b"].round > 0 /\ \E vote \in net.msgs : CollectPrevote("b", vote)
  \/ Precommit("b")
  \/ val["b"].round > 0 /\ \E vote \in net.msgs : CollectPrecommit("b", vote)
  \/ CommitDecision("b")
  \/ val["b"].round > 0 /\ \E vote \in net.msgs : CollectCommit("b", vote)
  \/ FinalizeCommit("b")
  \/ NewHeight("b")

SpecCarry == CarryInit /\ [][CarryNext]_vars

\* A ballot box keeps every commit of the given height that it was handed at
\* the start of the round, for the same block and still countable.
carried(box, after, height, round) ==
  \A i \in 1..Len(box) :
    (box[i].v.type = COMMIT /\ box[i].v.height = height)
      => /\ MHas(after, box[i].k)
         /\ MGet(after, box[i].k).blockID = box[i].v.blockID
         /\ ~isStale(MGet(after, box[i].k), height, round)

\* C16 (commit carry-over): when a round starts, every commit of the
\* validator's height that it has recorded is put into the prevote box and
\* into the precommit box, and it stays there, for the commit's block and with
\* the voter's stake counted, until the box is tallied in that round: the
\* prevote box until precommit() counts it, the precommit box until
\* commitDecision() counts it.
C16_CommitCarryOver ==
  [][\A v \in DOMAIN val :
       LET s == val[v]
           t == val'[v]
           sameRound == t.height = s.height /\ t.round = s.round
       IN  /\ (t.height = s.height /\ t.round = s.round + 1)
                => /\ carried(s.commits, t.prevotes, t.height, t.round)
                   /\ carried(s.commits, t.precommits, t.height, t.round)
           /\ (sameRound /\ ~(s.pc = "precommit" /\ t.pc # "precommit"))
                => carried(s.prevotes, t.prevotes, s.height, s.round)
           /\ (sameRound /\ ~(s.pc = "commitDecision" /\ t.pc # "commitDecision"))
                => carried(s.precommits, t.precommits, s.height, s.round)]_vars


-----------------------------------------------------------------------------
(* SpecGenesis: StakeBlockchain.makeGenesis applied to a configuration.     *)
(* A configuration is the object cfg restricted to its two stake fields: a  *)
(* field that is undefined is absent from the domain.  startingStake is an  *)
(* object address -> amount, startingStakeMap a Map client -> amount whose  *)
(* clients are written here by their addresses; both keep insertion order.  *)

MaxGenesisStake == 2

MaxListed == 2

\* makeGenesis without the initialisation of accumPower.
makeGenesisNoPower(cfg) ==
  LET given == DOMAIN cfg
      RECURSIVE setAll(_, _)
      setAll(m, entries) ==
        IF entries = <<>> THEN m
        ELSE setAll(MSet(m, entries[1].k, entries[1].v), Tail(entries))
      startingStake ==
        setAll(IF "startingStake" \in given THEN cfg.startingStake ELSE <<>>,
               IF "startingStakeMap" \in given THEN cfg.startingStakeMap ELSE <<>>)
  IN  IF given = {}
      THEN [error |-> "Either startingStake or startingStakeMap must be specified."]
      ELSE IF given = {"startingStake", "startingStakeMap"}
      THEN [error |-> "Either startingStake or startingStakeMap must be specified, but both."]
      ELSE [LedgerGenesis EXCEPT !.stakeBalances = setAll(<<>>, startingStake),
                                 !.accumPower = <<>>]

makeGenesis(cfg) ==
  LET given == DOMAIN cfg
      RECURSIVE setAll(_, _)
      setAll(m, entries) ==
        IF entries = <<>> THEN m
        ELSE setAll(MSet(m, entries[1].k, entries[1].v), Tail(entries))
      startingStake ==
        setAll(IF "startingStake" \in given THEN cfg.startingStake ELSE <<>>,
               IF "startingStakeMap" \in given THEN cfg.startingStakeMap ELSE <<>>)
  IN  IF given = {}
      THEN [error |-> "Either startingStake or startingStakeMap must be specified."]
      ELSE IF given = {"startingStake", "startingStakeMap"}
      THEN [error |-> "Either startingStake or startingStakeMap must be specified, but both."]
      ELSE [LedgerGenesis EXCEPT !.stakeBalances = setAll(<<>>, startingStake),
                                 !.accumPower = setAll(<<>>, startingStake)]

\* Every configuration with up to MaxListed validators per field, in either
\* order, and amounts up to MaxGenesisStake.
GenesisInit ==
  LET tables == {t \in UNION {[1..n -> [k : {"a", "b", "c"}, v : 1..MaxGenesisStake]]
                              : n \in 0..MaxListed} :
                   \A i, j \in 1..Len(t) : t[i].k = t[j].k => i = j}
  IN  /\ llog \in {[cfg |-> c, made |-> FALSE]
                   : c \in UNION {[fields -> tables]
                                  : fields \in SUBSET {"startingStake", "startingStakeMap"}}}
      /\ lcur = LedgerIdle /\ lparent = LedgerIdle /\ lheap = LedgerIdle
      /\ psel = LedgerIdle /\ val = LedgerIdle /\ net = LedgerIdle /\ hist = LedgerIdle

MakeGenesis ==
  /\ ~llog.made
  /\ lcur' = makeGenesis(llog.cfg)
  /\ llog' = [llog EXCEPT !.made = TRUE]
  /\ UNCHANGED <<lparent, lheap, psel, val, net, hist>>

SpecGenesis == GenesisInit /\ [][MakeGenesis]_vars

\* C17 (genesis configuration): makeGenesis fails when neither startingStake
\* nor startingStakeMap is given and when both are given; when exactly one is
\* given, the genesis block has stakeBalances[a] = accumPower[a] = the
\* configured amount for every listed validator a, and no entry for any other
\* address.
C17_GenesisConfiguration ==
  llog.made =>
    LET cfg == llog.cfg
        given == DOMAIN cfg
        listed == IF given = {"startingStake"} THEN cfg.startingStake
                  ELSE cfg.startingStakeMap
    IN  IF Cardinality(given) # 1
        THEN DOMAIN lcur = {"error"}
        ELSE /\ "error" \notin DOMAIN lcur
             /\ MKeySet(lcur.stakeBalances) = MKeySet(listed)
             /\ MKeySet(lcur.accumPower) = MKeySet(listed)
             /\ \A a \in MKeySet(listed) :
                  /\ MGet(lcur.stakeBalances, a) = MGet(listed, a)
                  /\ MGet(lcur.accumPower, a) = MGet(listed, a)

\* A genesis block made from a startingStakeMap that lists two validators.
C17_Witness ==
  /\ llog.made
  /\ DOMAIN llog.cfg = {"startingStakeMap"}
  /\ Len(llog.cfg.startingStakeMap) = 2
  /\ Len(lcur.stakeBalances) = 2


-----------------------------------------------------------------------------
(* SpecVote: Vote.isValid applied to one vote by a validator at some height *)
(* and round.                                                               *)

MaxVoteRound == 3

\* Every vote of a height and round up to MaxVoteRound, of each phase, signed
\* by its sender or by somebody else, and every height and round of the
\* validator that checks it.
VoteInit ==
  /\ llog \in {[vote |-> Msg("a", h, r, type, BlockId(h, r, 0), signer),
                height |-> height, round |-> round, checked |-> FALSE, valid |-> FALSE]
               : h \in 1..MaxVoteRound, r \in 1..MaxVoteRound,
                 type \in {PREVOTE, PRECOMMIT, COMMIT}, signer \in {"a", "b"},
                 height \in 1..MaxVoteRound, round \in 1..MaxVoteRound}
  /\ lcur = LedgerIdle /\ lparent = LedgerIdle /\ lheap = LedgerIdle
  /\ psel = LedgerIdle /\ val = LedgerIdle /\ net = LedgerIdle /\ hist = LedgerIdle

CheckVote ==
  /\ ~llog.checked
  /\ llog' = [llog EXCEPT !.checked = TRUE,
                          !.valid = isValid(llog.vote, llog.height, llog.round)]
  /\ UNCHANGED <<lcur, lparent, lheap, psel, val, net, hist>>

SpecVote == VoteInit /\ [][CheckVote]_vars

\* C18 (vote staleness): a correctly signed vote is rejected by isValid exactly
\* when its height is below the validator's height, or its round is below the
\* validator's round and it is not a commit; a commit of the validator's
\* height is accepted in every later round of that height.
C18_VoteStaleness ==
  (llog.checked /\ hasValidSignature(llog.vote)) =>
    /\ ~llog.valid <=> \/ llog.vote.height < llog.height
                       \/ llog.vote.round < llog.round /\ llog.vote.type # COMMIT
    /\ (llog.vote.type = COMMIT /\ llog.vote.height = llog.height
        /\ llog.round > llog.vote.round) => llog.valid

\* A commit of round 1 checked, and accepted, by a validator that has reached
\* round 3 of the same height.
C18_Witness ==
  /\ llog.checked /\ llog.valid /\ hasValidSignature(llog.vote)
  /\ llog.vote.type = COMMIT /\ llog.vote.height = llog.height
  /\ llog.vote.round = 1 /\ llog.round = 3

-----------------------------------------------------------------------------
(* The vote box and its tally, over SpecTally.                              *)

\* The listener was handed a vote: nothing was signed and nothing tallied.
Received == val.pc = "commitDecision" /\ val'.pc = val.pc /\ net'.msgs = net.msgs

C25_TallyOrderIndependent ==
  val.pc = "counted" =>
    LET box == val.counted
        totalStake == getTotalStake(lcur)
        above == {blockID \in TallyIds(val.height) \cup {NIL} :
                    3 * countedStake(box, lcur, val.height, val.round, blockID)
                      > 2 * totalStake}
    IN  /\ Cardinality(above) <= 1
        /\ \A order \in Permutations(1..Len(box)) :
             countVotes([i \in 1..Len(box) |-> box[order[i]]], lcur, val.height, val.round)
               = val.winningBlockID

-----------------------------------------------------------------------------
(* SpecEquivocate: validator "b" runs its rounds while the proposer "a"     *)
(* signs a proposal for one block after another, of the same height and    *)
(* round or of the next height on a block that "b" does not hold.  No other *)
(* validator votes, so "b" goes from round to round.                        *)

MaxConflicting == 3

EquivocateInit ==
  /\ val = [v \in {"b"} |-> initialValidator(v)]
  /\ net = [msgs |-> {}, txs |-> {}]
  /\ hist = [blocks |-> <<>>]
  /\ lcur = LedgerIdle /\ lparent = LedgerIdle /\ lheap = LedgerIdle
  /\ llog = LedgerIdle /\ psel = LedgerIdle

\* The proposer runs proposeBlock and shareProposal once more in its round 1:
\* another block, another signed proposal.  It builds on the genesis block,
\* or it has installed one of its blocks of height 1 as its head and builds
\* on that.
Equivocate ==
  /\ Cardinality(DOMAIN hist.blocks) < MaxConflicting
  /\ \E parent \in {GenesisId} \cup {id \in DOMAIN hist.blocks : hist.blocks[id].chainLength = 1} :
       LET first == initialValidator("a")
           ahead == IF parent = GenesisId THEN first
                    ELSE startNewSearch([first EXCEPT !.lastBlock = parent,
                                                      !.chain = @ \cup {parent}],
                                        hist.blocks)
           eff == proposeBlock([ahead EXCEPT !.round = 1], hist.blocks)
       IN  /\ Broadcast(eff)
           /\ hist' = [hist EXCEPT !.blocks = eff.blocks]
  /\ UNCHANGED <<val, LedgerUnused>>

EquivocateNext ==
  \/ Equivocate
  \/ NewRound("b")
  \/ /\ val["b"].pc = "prevote"
     /\ \E proposal \in net.msgs : CollectProposal("b", proposal)
  \/ Prevote("b")
  \/ Precommit("b")
  \/ CommitDecision("b")

SpecEquivocate == EquivocateInit /\ [][EquivocateNext]_vars

\* The proposals in a validator's buffer that prevote finds valid.
validProposals(s, blocks) ==
  {s.proposals[i] : i \in {j \in 1..Len(s.proposals) : isValidProposal(s.proposals[j], blocks)}}

\* C26 (prevote on conflicting proposals): when an unlocked validator whose
\* buffer holds two valid proposals of one proposer with different blockIDs
\* prevotes, an evidence transaction naming two such proposals is posted, the
\* prevote it broadcasts is for NIL, and the buffer is empty afterwards.
C26_PrevoteOnConflict ==
  [][\A v \in DOMAIN val :
       (/\ val[v].pc = "prevote" /\ val'[v].pc = "precommit"
        /\ val[v].lockedBlock = Undefined
        /\ \E p, q \in validProposals(val[v], hist.blocks) :
             p.from = q.from /\ p.blockID # q.blockID)
       => /\ \E tx \in net'.txs :
               /\ tx.type = EVIDENCE /\ tx.from = v
               /\ {tx.msg1, tx.msg2} \subseteq validProposals(val[v], hist.blocks)
               /\ tx.msg1.from = tx.msg2.from /\ tx.msg1.blockID # tx.msg2.blockID
          /\ makeVote(val[v], PREVOTE, NIL) \in net'.msgs
          /\ \A m \in net'.msgs :
               (m.type = PREVOTE /\ m.from = v /\ m.height = val[v].height
                  /\ m.round = val[v].round) => m.blockID = NIL
          /\ val'[v].proposals = <<>>]_vars

-----------------------------------------------------------------------------
(* The validator's steps without a block majority, and the commit, over    *)
(* Spec and SpecCarry.                                                      *)

\* C27 (precommit implies lock): when a validator's precommit step broadcasts
\* a precommit for a block, the validator's lockedBlock is defined at the end
\* of the step and is that block, whether or not the validator has stored
\* the block's proposal.
C27_PrecommitImpliesLock ==
  [][\A v \in DOMAIN val :
       (val[v].pc = "precommit" /\ val'[v].pc = "commitDecision")
       => \A vote \in net'.msgs \ net.msgs :
            (vote.type = PRECOMMIT /\ vote.from = v)
            => /\ val'[v].lockedBlock # Undefined
               /\ val'[v].lockedBlock = vote.blockID]_vars

\* C28 (precommit without block majority): when the prevotes for NIL carry
\* more than 2/3 of the bonded stake, the precommit step releases the lock
\* and broadcasts no precommit; when no blockID carries more than 2/3, it
\* broadcasts no precommit and leaves lockedBlock as it was; the prevote box
\* is empty after the step in both cases.
C28_PrecommitWithoutMajority ==
  [][\A v \in DOMAIN val :
       (val[v].pc = "precommit" /\ val'[v].pc = "commitDecision")
       => LET s == val[v]
              box == s.prevotes
              above(blockID) ==
                3 * countedStake(box, s.currentBlock, s.height, s.round, blockID)
                  > 2 * getTotalStake(s.currentBlock)
              silent == \A m \in net'.msgs :
                          ~(/\ m.type = PRECOMMIT /\ m.from = v
                            /\ m.height = s.height /\ m.round = s.round)
          IN  /\ above(NIL)
                   => /\ val'[v].lockedBlock = Undefined
                      /\ silent /\ val'[v].prevotes = <<>>
              /\ (\A i \in 1..Len(box) : ~above(box[i].v.blockID)) /\ ~above(NIL)
                   => /\ val'[v].lockedBlock = s.lockedBlock
                      /\ silent /\ val'[v].prevotes = <<>>]_vars

\* A validator that locked on a block in round 1 (it precommitted a block it
\* had stored) has passed the precommit step of round 2 without a lock and
\* without a precommit: the prevotes for NIL released the lock.
C28_Witness ==
  \E v \in DOMAIN val :
    /\ val[v].pc = "commitDecision" /\ val[v].height = 1 /\ val[v].round = 2
    /\ val[v].lockedBlock = Undefined
    /\ \E m \in net.msgs :
         /\ m.type = PRECOMMIT /\ m.from = v /\ m.height = 1 /\ m.round = 1
         /\ m.blockID \in val[v].proposedBlocks
    /\ \A m \in net.msgs : ~(m.type = PRECOMMIT /\ m.from = v /\ m.round = 2)

\* The votes of a box that were cast as prevotes or precommits in the given
\* round of the given height or before it.
roundVotes(box, height, round) ==
  {box[i].v : i \in {j \in 1..Len(box) :
                       /\ box[j].v.type \in {PREVOTE, PRECOMMIT}
                       /\ box[j].v.height = height /\ box[j].v.round <= round}}

\* C29 (commit decision without block majority): when no block carries more
\* than 2/3 of the bonded stake in the precommit tally, commitDecision arms
\* newRound and newRound takes the validator to round r + 1 of the same
\* height; over the two steps nextBlock stays unset, the commit box and
\* lockedBlock are unchanged, and in round r + 1 the prevote and precommit
\* boxes hold no prevote or precommit of round r.
C29_CommitDecisionWithoutMajority ==
  [][\A v \in DOMAIN val :
       LET s == val[v]
           t == val'[v]
           above(blockID) ==
             3 * countedStake(s.precommits, s.currentBlock, s.height, s.round, blockID)
               > 2 * getTotalStake(s.currentBlock)
       IN  /\ (/\ s.pc = "commitDecision" /\ t.pc # "commitDecision"
               /\ \A i \in 1..Len(s.precommits) :
                    s.precommits[i].v.blockID = NIL \/ ~above(s.precommits[i].v.blockID))
                => /\ t.pc = "newRound" /\ t.height = s.height /\ t.round = s.round
                   /\ t.nextBlock = Undefined /\ t.commits = s.commits
                   /\ t.lockedBlock = s.lockedBlock
                   /\ roundVotes(t.precommits, s.height, s.round) = {}
           /\ (s.pc = "newRound" /\ t.pc # "newRound" /\ s.round > 0)
                => /\ t.height = s.height /\ t.round = s.round + 1
                   /\ t.nextBlock = Undefined /\ t.commits = s.commits
                   /\ t.lockedBlock = s.lockedBlock
                   /\ roundVotes(t.prevotes, s.height, s.round) = {}
                   /\ roundVotes(t.precommits, s.height, s.round) = {}]_vars

\* C30 (finalize): a validator leaves finalizeCommit only for newHeight, and
\* only when the commits for some block carry more than 2/3 of the bonded
\* stake; until then it stays in finalizeCommit.  newHeight installs
\* nextBlock as the head and starts the next height: the height is one more,
\* the round counter restarts (the first round of the height is round 1),
\* lockedBlock and nextBlock are unset, and the round-local accumPower is the
\* installed block's accumPower, on which the first round's proposer
\* selection then acts.
C30_Finalize ==
  [][\A v \in DOMAIN val :
       LET s == val[v]
           t == val'[v]
           above(blockID) ==
             3 * countedStake(s.commits, s.currentBlock, s.height, s.round, blockID)
               > 2 * getTotalStake(s.currentBlock)
       IN  /\ (s.pc = "finalizeCommit" /\ t.pc # "finalizeCommit")
                => /\ t.pc = "newHeight"
                   /\ \E i \in 1..Len(s.commits) :
                        s.commits[i].v.blockID # NIL /\ above(s.commits[i].v.blockID)
                   /\ t.height = s.height /\ t.nextBlock = s.nextBlock
           /\ (s.pc = "newHeight" /\ t.pc # "newHeight")
                => /\ s.nextBlock # Undefined
                   /\ t.lastBlock = s.nextBlock
                   /\ t.height = s.height + 1 /\ t.round = 1
                   /\ t.lockedBlock = Undefined /\ t.nextBlock = Undefined
                   /\ LET installed == storedBlock(hist.blocks, s.nextBlock)
                      IN  t.roundAccumPower =
                            determineProposer(installed.accumPower, t.currentBlock.stakeBalances,
                                              s.currentProposer).roundAccumPower]_vars

\* The block of a proposal is built on a block the validator holds.
holdsParent(s, blockID, blocks) == blocks[blockID].prev \in s.chain

\* C31 (missing parent): a proposal whose block is built on a parent the
\* validator does not hold is ignored: its block is not stored, the proposal
\* is not in the proposal buffer after it was received, and the validator
\* casts no prevote for its blockID.
C31_MissingParent ==
  [][\A v \in DOMAIN val :
       LET s == val[v]
           t == val'[v]
       IN  /\ \A blockID \in t.proposedBlocks \ s.proposedBlocks :
                holdsParent(s, blockID, hist.blocks)
           /\ (t.proposals # s.proposals /\ t.proposals # <<>>)
                => holdsParent(s, t.proposals[Len(t.proposals)].blockID, hist.blocks)
           /\ \A m \in prevotesCast(v) :
                m.blockID # NIL => holdsParent(s, m.blockID, hist.blocks)]_vars

\* C32 (persisted accumulator): the accumPower of the block a validator
\* installs is its parent's accumPower after one updateAccumPower for the
\* proposer of the round in which the validator committed the block (with the
\* stake table of the parent or of the block itself), however many rounds
\* failed before and also when the block was proposed in an earlier round.
C32_PersistedAccumulator ==
  [][\A v \in DOMAIN val :
       LET s == val[v]
       IN  (s.pc = "newHeight" /\ val'[v].pc # "newHeight" /\ s.nextBlock # Undefined)
           => LET block == storedBlock(hist.blocks, s.nextBlock)
                  parent == storedBlock(hist.blocks, hist.blocks[s.nextBlock].prev)
                  made == newStakeBlock(s.currentProposer, parent, NoHeap)
                  filled == [made EXCEPT !.stakeBalances = block.stakeBalances]
              IN  \/ block.accumPower = updateAccumPower(made, s.currentProposer).accumPower
                  \/ block.accumPower = updateAccumPower(filled, s.currentProposer).accumPower]_vars

\* C33 (the loop never halts): after every message and every timer each
\* validator is at a step whose timer is pending: none of its callbacks has
\* ended in an exception or returned without arming the next timer.
C33_NeverHalts ==
  \A v \in DOMAIN val :
    val[v].pc \in {"newRound", "prevote", "precommit", "commitDecision",
                   "finalizeCommit", "newHeight"}

-----------------------------------------------------------------------------
(* Repeated evidence, over SpecLedger.                                      *)

\* An evidence transaction is applied whose pair names a validator that an
\* earlier application has slashed and that holds no entry in stakeBalances
\* and accumPower now.
slashedAgain ==
  /\ llog'.txs # llog.txs /\ llog'.evidence # NoEvidence
  /\ isEvidence(llog'.evidence[1], llog'.evidence[2])
  /\ llog'.evidence[1].from \in llog.slashed
  /\ ~MHas(lcur.stakeBalances, llog'.evidence[1].from)
  /\ ~MHas(lcur.accumPower, llog'.evidence[1].from)

\* C34 as stated (repeated evidence slashes again): applying an evidence
\* pair against a validator that was already slashed changes balances,
\* stakeBalances or accumPower.
C34_RepeatedEvidenceSlashes ==
  [][slashedAgain => <<lcur'.balances, lcur'.stakeBalances, lcur'.accumPower>>
                       # <<lcur.balances, lcur.stakeBalances, lcur.accumPower>>]_vars

\* C34 (repeated evidence, amended): applying an evidence pair against a
\* validator that was already slashed and has since regained no entry in
\* stakeBalances or accumPower seizes nothing: stakeBalances, accumPower and
\* the validator's balance are unchanged, and so is every other balance when
\* the total bonded stake is a number other than zero.
C34_RepeatedEvidenceNoOp ==
  [][slashedAgain =>
       LET cheaterAddr == llog'.evidence[1].from
           totalBonded == getTotalStake(lcur)
       IN  /\ lcur'.stakeBalances = lcur.stakeBalances
           /\ lcur'.accumPower = lcur.accumPower
           /\ DOMAIN lcur'.balances = DOMAIN lcur.balances
           /\ lcur'.balances[cheaterAddr] = lcur.balances[cheaterAddr]
           /\ (totalBonded # NaN /\ totalBonded # 0)
                => lcur'.balances = lcur.balances]_vars

\* The same evidence pair is in the block twice in a row, and its validator
\* was slashed by it.
C34_Witness ==
  \E i \in 1..(Len(llog.txs) - 1) :
    /\ llog.txs[i].type = EVIDENCE /\ llog.txs[i + 1] = llog.txs[i]
    /\ isEvidence(llog.txs[i].msg1, llog.txs[i].msg2)
    /\ llog.txs[i].from \in llog.slashed


-----------------------------------------------------------------------------
(* The proposer's block and its replay, over SpecLedger.                    *)

\* C35 (replay determinism): when a closed block is replayed on its parent
\* with rerun, the stakeBalances, unstakingEvents and accumPower of the
\* replayed block equal those of the block as its proposer built it.
C35_ReplayDeterminism ==
  [][(llog.closed /\ ~llog.replayed /\ llog'.replayed)
       => /\ lcur'.stakeBalances = lcur.stakeBalances
          /\ lcur'.unstakingEvents = lcur.unstakingEvents
          /\ lcur'.accumPower = lcur.accumPower]_vars


-----------------------------------------------------------------------------
(* SpecFailedRounds: the validators of Spec when every proposal and every   *)
(* vote is lost.  Each round ends without a majority and commitDecision     *)
(* starts the next one; a staking transaction posted before the first round *)
(* reaches the pool of a validator or is lost to it.                        *)

MaxFailedRound == 4

FailedNewRound(v) ==
  /\ val[v].pc = "newRound" /\ val[v].round < MaxFailedRound
  /\ LET eff == newRound(val[v], hist.blocks)
     IN  /\ val' = [val EXCEPT ![v] = eff.s]
         /\ Broadcast(eff)
         /\ hist' = [hist EXCEPT !.blocks = eff.blocks]
  /\ UNCHANGED LedgerUnused

FailedRoundsNext ==
  \/ \E v \in Validators : FailedNewRound(v)
  \/ \E v \in Validators : Prevote(v)
  \/ \E v \in Validators : Precommit(v)
  \/ \E v \in Validators : CommitDecision(v)
  \/ \E v \in Validators :
       /\ val[v].pc = "newRound" /\ val[v].round = 0
       /\ \E tx \in net.txs : tx \notin Range(val[v].transactions) /\ AddTransaction(v, tx)
  \/ \E v \in Stakers :
       /\ Cardinality(net.txs) < MaxPosted
       /\ \A w \in Validators : val[w].round = 0 /\ val[w].pc = "newRound"
       /\ PostStakingTransaction(v, StakeOffer)

SpecFailedRounds == Init /\ [][FailedRoundsNext]_vars

\* C36 (proposer agreement): two validators on the same committed head that
\* are in the same round of the same height have selected the same proposer
\* for it.
C36_ProposerAgreement ==
  \A v, w \in DOMAIN val :
    (/\ val[v].lastBlock = val[w].lastBlock
     /\ val[v].height = val[w].height
     /\ val[v].round = val[w].round /\ val[v].round >= 1)
      => val[v].currentProposer = val[w].currentProposer


-----------------------------------------------------------------------------
(* The proposer of the first round after a slashing, over SpecLedger.       *)

-----------------------------------------------------------------------------
(* The rounds of the counted votes, over SpecTally.                         *)

\* C38 (round isolation of tallies): on the stake table of the genesis
\* block, every vote of the tallied box that countVotes did not skip was cast
\* for the validator's height and round, or is a commit of the validator's
\* height; and the winner of the tally is the winner among those votes alone.
C38_RoundIsolation ==
  (val.pc = "counted" /\ lcur.stakeBalances = LedgerGenesis.stakeBalances) =>
    LET ofRound(e) == /\ e.v.height = val.height
                      /\ (e.v.round = val.round \/ e.v.type = COMMIT)
    IN  /\ \A i \in 1..Len(val.counted) :
             ~isStale(val.counted[i].v, val.height, val.round) => ofRound(val.counted[i])
        /\ val.winningBlockID
             = countVotes(SelectSeq(val.counted, ofRound), lcur, val.height, val.round)


-----------------------------------------------------------------------------
(* The block installed and the proposals voted for, over Spec and           *)
(* SpecEquivocate.                                                          *)

\* C39: when finalizeCommit finds a winning id in the commit tally and arms
\* newHeight, nextBlock is defined and is the block of the winning id.
C39_InstallsCommitWinner ==
  [][\A v \in DOMAIN val :
       (val[v].pc = "finalizeCommit" /\ val'[v].pc = "newHeight")
         => /\ val[v].nextBlock # Undefined
            /\ val[v].nextBlock = countVotes(val[v].commits, val[v].currentBlock,
                                              val[v].height, val[v].round)]_vars


\* C40: when an unlocked validator prevotes for a block, its buffer holds a
\* proposal for that block sent by the proposer it selected for the round;
\* and no evidence transaction it posts in the step names the selected
\* proposer (the sender of the second message) on account of a proposal of
\* another validator (the first message).
C40_PrevoteForSelectedProposer ==
  [][\A v \in DOMAIN val :
       (/\ val[v].pc = "prevote" /\ val'[v].pc = "precommit"
        /\ val[v].lockedBlock = Undefined)
       => /\ \A m \in net'.msgs \ net.msgs :
               (m.type = PREVOTE /\ m.from = v /\ m.blockID # NIL)
                 => \E i \in 1..Len(val[v].proposals) :
                      /\ val[v].proposals[i].blockID = m.blockID
                      /\ val[v].proposals[i].from = val[v].currentProposer
          /\ \A tx \in net'.txs \ net.txs :
               tx.type = EVIDENCE
                 => ~(/\ tx.msg1.from # tx.msg2.from
                      /\ tx.msg2.from = val[v].currentProposer)]_vars

====
